---------------------------- MODULE Spec2Model ----------------------------
(***************************************************************************)
(* A model of deps-checker (devemit/npm-dependency-checker): the manifest  *)
(* parser, the npm registry service, the check and update commands and     *)
(* the update classifier, as one state machine.                            *)
(*                                                                         *)
(* Strings that the program hands to the semver library are modelled as    *)
(* records [kind, lead, major, minor, patch, pre, build]:                  *)
(*   kind "ver"    lead ++ major.minor.patch[-pre][+build]                 *)
(*   kind "text"   any other string; lead holds the text itself            *)
(*   kind "null"   the JavaScript value null / undefined                   *)
(*   kind "number" a JSON number (a non-string manifest value)             *)
(***************************************************************************)
EXTENDS Naturals, Integers, Sequences, FiniteSets, TLC

\* ------------------------------------------------------------------ bounds

\* Largest major / minor / patch number of a modelled version.
MaxNum == 1

\* ------------------------------------------------------ version strings

Str(kind, lead, major, minor, patch, pre, build) ==
    [kind |-> kind, lead |-> lead, major |-> major, minor |-> minor,
     patch |-> patch, pre |-> pre, build |-> build]

Null == Str("null", "", 0, 0, 0, "", "")

Text(t) == Str("text", t, 0, 0, 0, "", "")

Ver(major, minor, patch) == Str("ver", "", major, minor, patch, "", "")

Nums == 0..MaxNum

PreTags == {"", "beta"}

BuildTags == {"", "b1"}

\* JavaScript truthiness of a value used as a condition: null and the empty
\* string are falsy, every other modelled value is truthy.
Truthy(s) == ~(s.kind = "null" \/ (s.kind = "text" /\ s.lead = ""))

IsString(s) == s.kind \in {"ver", "text"}

\* ------------------------------------------------------------ semver

\* semver.parse in strict mode: the whole string must be v?M.m.p[-pre][+build];
\* anything else (a non-string included) gives null.
semverParse(s) ==
    IF s.kind = "ver" /\ s.lead \in {"", "v"}
    THEN Str("ver", "", s.major, s.minor, s.patch, s.pre, s.build)
    ELSE Null

\* SemVer.version: the formatted version, without the build metadata.
semverVersion(p) == Str("ver", "", p.major, p.minor, p.patch, p.pre, "")

\* The leading characters String.replace(/^[=v]+/, '') removes.
StripLead(s) ==
    IF s.kind = "ver" /\ s.lead \in {"v", "=", "=v"}
    THEN Str("ver", "", s.major, s.minor, s.patch, s.pre, s.build)
    ELSE s

\* semver.clean of a string; the caller handles non-strings (version.trim
\* raises a TypeError on them).
semverClean(s) ==
    LET p == semverParse(StripLead(s))
    IN  IF p = Null THEN Null ELSE semverVersion(p)

\* semver.valid
semverValid(s) ==
    LET p == semverParse(s)
    IN  IF p = Null THEN Null ELSE semverVersion(p)

PreOrd(t) == IF t = "alpha" THEN 1 ELSE IF t = "beta" THEN 2 ELSE 3

\* SemVer.compare on two parsed versions: -1, 0 or 1. Build metadata is
\* ignored; a pre-release is lower than its release.
semverCompare(a, b) ==
    IF a.major # b.major THEN (IF a.major < b.major THEN -1 ELSE 1)
    ELSE IF a.minor # b.minor THEN (IF a.minor < b.minor THEN -1 ELSE 1)
    ELSE IF a.patch # b.patch THEN (IF a.patch < b.patch THEN -1 ELSE 1)
    ELSE IF a.pre = b.pre THEN 0
    ELSE IF a.pre = "" THEN 1
    ELSE IF b.pre = "" THEN -1
    ELSE IF PreOrd(a.pre) < PreOrd(b.pre) THEN -1 ELSE 1

\* semver.gt raises a TypeError unless both arguments parse strictly.
semverGtThrows(a, b) == semverParse(a) = Null \/ semverParse(b) = Null

semverGt(a, b) == semverCompare(semverParse(a), semverParse(b)) = 1

\* ------------------------------------------------ update classifier

\* A classifier that compares the minor number before the major one.
getUpdateTypeMinorFirst(currentVersion, newVersion) ==
    IF ~Truthy(currentVersion) \/ ~Truthy(newVersion) THEN "unknown"
    ELSE LET current == semverParse(currentVersion)
             latest == semverParse(newVersion)
         IN  IF current = Null \/ latest = Null THEN "unknown"
             ELSE IF latest.minor > current.minor THEN "minor"
             ELSE IF latest.major > current.major THEN "major"
             ELSE IF latest.patch > current.patch THEN "patch"
             ELSE "none"

\* getUpdateType of commands/update.js
getUpdateType(currentVersion, newVersion) ==
    IF ~Truthy(currentVersion) \/ ~Truthy(newVersion) THEN "unknown"
    ELSE LET current == semverParse(currentVersion)
             latest == semverParse(newVersion)
         IN  IF current = Null \/ latest = Null THEN "unknown"
             ELSE IF latest.major > current.major THEN "major"
             ELSE IF latest.minor > current.minor THEN "minor"
             ELSE IF latest.patch > current.patch THEN "patch"
             ELSE "none"

\* A classifier that takes an argument it cannot parse for an equal version.
getUpdateTypeLenient(currentVersion, latestVersion) ==
    IF semverParse(currentVersion) = Null \/ semverParse(latestVersion) = Null THEN "none"
    ELSE getUpdateType(currentVersion, latestVersion)

\* getUpdateType of commands/check.js (the copy the check report uses)
checkGetUpdateType(currentVersion, latestVersion) ==
    IF ~Truthy(currentVersion) \/ ~Truthy(latestVersion) THEN "unknown"
    ELSE LET current == semverParse(currentVersion)
             latest == semverParse(latestVersion)
         IN  IF current = Null \/ latest = Null THEN "unknown"
             ELSE IF latest.major > current.major THEN "major"
             ELSE IF latest.minor > current.minor THEN "minor"
             ELSE IF latest.patch > current.patch THEN "patch"
             ELSE "none"

\* ------------------------------------------------------------ parser

\* The value of major / minor / patch when the specifier is not exact (null).
NoNum == -1

Range(op, lo, hi) == [kind |-> "range", op |-> op, lo |-> lo, hi |-> hi]

\* The first version a caret range excludes.
CaretUpper(v) ==
    IF v.major > 0 THEN Ver(v.major + 1, 0, 0)
    ELSE IF v.minor > 0 THEN Ver(0, v.minor + 1, 0)
    ELSE Ver(0, 0, v.patch + 1)

\* semver.validRange: the normalised range, or null when the string is no
\* range. An exact version is a range too; build metadata is dropped.
semverValidRange(s) ==
    LET v == Str("ver", "", s.major, s.minor, s.patch, s.pre, "")
    IN  IF s.kind = "ver" THEN
            IF s.lead \in {"", "v", "=", "=v"} THEN Range("=", v, v)
            ELSE IF s.lead = "^" THEN Range("^", v, CaretUpper(v))
            ELSE IF s.lead = "~" THEN Range("~", v, Ver(v.major, v.minor + 1, 0))
            ELSE IF s.lead = ">=" THEN Range(">=", v, Null)
            ELSE Null
        ELSE IF s.kind = "text" /\ s.lead \in {"", "*"} THEN Range("*", Ver(0, 0, 0), Null)
        ELSE Null

\* An analyzer that calls every specifier semver takes for a range a range.
parseVersionRangeAnyRange(version) ==
    LET clean == semverClean(version)
        valid == semverValid(clean)
        range == semverValidRange(version)
    IN  [original |-> version,
         clean |-> clean,
         valid |-> valid,
         range |-> range,
         isExact |-> valid # Null,
         isRange |-> range # Null,
         major |-> IF valid # Null THEN valid.major ELSE NoNum,
         minor |-> IF valid # Null THEN valid.minor ELSE NoNum,
         patch |-> IF valid # Null THEN valid.patch ELSE NoNum]

\* PackageParser.parseVersionRange, for a string specifier.
parseVersionRange(version) ==
    LET clean == semverClean(version)
        valid == semverValid(clean)
        range == semverValidRange(version)
    IN  [original |-> version,
         clean |-> clean,
         valid |-> valid,
         range |-> range,
         isExact |-> valid # Null,
         isRange |-> range # Null /\ valid = Null,
         major |-> IF valid # Null THEN valid.major ELSE NoNum,
         minor |-> IF valid # Null THEN valid.minor ELSE NoNum,
         patch |-> IF valid # Null THEN valid.patch ELSE NoNum]

\* PackageParser.dependencyTypes, in iteration order.
dependencyTypes ==
    <<"dependencies", "devDependencies", "peerDependencies", "optionalDependencies">>

\* A map whose set leaves the record of an existing key as it is.
MapSetKeepFirst(map, rec) ==
    IF \E i \in 1..Len(map) : map[i].name = rec.name THEN map ELSE Append(map, rec)

\* Map.prototype.set on an insertion-ordered map kept as a sequence of
\* records: an existing key keeps its place and gets the new value.
MapSet(map, rec) ==
    IF \E i \in 1..Len(map) : map[i].name = rec.name
    THEN [i \in 1..Len(map) |-> IF map[i].name = rec.name THEN rec ELSE map[i]]
    ELSE Append(map, rec)

\* A manifest section is [obj, entries]: obj says whether the value is a
\* non-null object, entries are its <<name, version>> pairs in written order.
NoSection == [obj |-> FALSE, entries |-> <<>>]

Section(entries) == [obj |-> TRUE, entries |-> entries]

RECURSIVE SetEntries(_, _, _)
SetEntries(map, entries, depType) ==
    IF entries = <<>> THEN map
    ELSE LET e == Head(entries)
         IN  SetEntries(MapSet(map, [name |-> e[1], version |-> e[2], type |-> depType,
                                     range |-> parseVersionRange(e[2])]),
                        Tail(entries), depType)

RECURSIVE ExtractFrom(_, _, _)
ExtractFrom(packageJson, k, map) ==
    IF k > Len(dependencyTypes) THEN map
    ELSE LET deps == packageJson[dependencyTypes[k]]
         IN  ExtractFrom(packageJson, k + 1,
                         IF deps.obj THEN SetEntries(map, deps.entries, dependencyTypes[k])
                         ELSE map)

\* PackageParser.extractDependencies: the map of dependency records.
extractDependencies(packageJson) == ExtractFrom(packageJson, 1, <<>>)

\* extractDependencies raises (TypeError in semver.clean) when a section
\* holds a version that is not a string.
extractThrows(packageJson) ==
    \E k \in 1..Len(dependencyTypes) :
        LET deps == packageJson[dependencyTypes[k]]
        IN  deps.obj /\ \E i \in 1..Len(deps.entries) : ~IsString(deps.entries[i][2])

\* ------------------------------------------------------------- state

VARIABLES
    cmd,            \* the subcommand running ("check", "update", "audit"), "service",
                    \* or the built-in argument given instead of a subcommand
    options,        \* the parsed command-line options
    manifest,       \* what parsePackageJson returns: [success, data]
    pc,             \* the command's position
    exitCode,       \* the process exit status, -1 while running
    dependencies,   \* the extracted Map, as a sequence of records
    packageNames,   \* Array.from(dependencies.keys())
    issued,         \* how many lookups the batch has started
    latestVersions, \* the slots of Promise.allSettled over getLatestVersion
    allVersions,    \* the slots of Promise.allSettled over getVersions
    results,        \* the per-dependency results (report.dependencies is this array)
    report,         \* the report's package and summary
    limit,          \* NpmRegistryService.limit: the concurrency of pLimit
    stdTTL,         \* the stdTTL of the service's NodeCache, in seconds
    cache,          \* the NodeCache entries under "package:<name>"
    vulnCache,      \* the NodeCache keys under "vuln:<name>:<version>"
    requests,       \* every client.get the service has made, with its state
    now,            \* the clock, in seconds
    served,         \* the getPackageInfo calls of a direct client of the service
    reordered,      \* history: some request settled while an earlier one was pending
    fnIn,           \* arguments of a function called on its own; in an audit,
                    \* the vulnerability table performSecurityAudit consults
    fnOut,          \* what the function returned, NoOut before the call
    stdout          \* the lines the command has written to standard output

cmdVars == <<cmd, options, manifest, pc, exitCode, dependencies, packageNames, issued,
             latestVersions, allVersions, results, report>>

svcVars == <<limit, stdTTL, cache, vulnCache, requests, now, served, reordered>>

fnVars == <<fnIn, fnOut>>

ioVars == <<stdout>>

vars == <<cmdVars, svcVars, fnVars, ioVars>>

\* No classifier call has returned.
NoOut == [type |-> "", check |-> "", swapped |-> ""]

\* ------------------------------------------------------ registry service

\* The package names of the modelled registry, in localeCompare order.
Names == <<"axios", "lodash", "react">>

NameSet == {Names[i] : i \in 1..Len(Names)}

NameRank(n) == CHOOSE i \in 1..Len(Names) : Names[i] = n

\* stdTTL when the constructor gets no (or a falsy) cacheTTL.
DefaultTTL == 3600

\* The pLimit concurrency when the constructor gets no (or a falsy) maxConcurrency.
DefaultConcurrency == 10

\* maxSockets of the keep-alive agents: the sockets open to the registry at once.
MaxSockets == 50

\* The cacheTTL the check command passes.
CheckCacheTTL == 3600

\* The constructor options each command passes to NpmRegistryService.
ServiceOptions(c, o) ==
    IF c = "update" THEN [maxConcurrency |-> 10, cacheTTL |-> 3600]
    ELSE IF c = "audit" THEN [maxConcurrency |-> 5, cacheTTL |-> 1800]
    ELSE [maxConcurrency |-> o.parallel,
          cacheTTL |-> IF o.cache THEN CheckCacheTTL ELSE 0]

\* NodeCache's stdTTL as the constructor computes it: options.cacheTTL || 3600.
ConstructorTTL(so) == IF so.cacheTTL # 0 THEN so.cacheTTL ELSE DefaultTTL

\* pLimit's concurrency as the constructor computes it.
ConstructorLimit(so) == IF so.maxConcurrency # 0 THEN so.maxConcurrency ELSE DefaultConcurrency

\* A package document without dist-tags and without versions.
NoDoc == [latest |-> Null, versions |-> <<>>]

NoEntry == [has |-> FALSE, info |-> NoDoc, exp |-> 0]

EmptyCache == [n \in NameSet |-> NoEntry]

\* NodeCache.get finds a value: the key is stored and has not expired
\* (an entry set with ttl 0 never expires).
CacheHit(c, name, t) == c[name].has /\ (c[name].exp = 0 \/ t < c[name].exp)

\* NodeCache.set with the cache's stdTTL.
CacheSet(c, name, info, ttl, t) ==
    [c EXCEPT ![name] = [has |-> TRUE, info |-> info,
                         exp |-> IF ttl = 0 THEN 0 ELSE t + ttl]]

\* The requests client.get has started and that have not settled.
Pending == {r \in 1..Len(requests) : requests[r].state = "pending"}

\* The registry requests on the wire: the pending ones, as far as the agents'
\* socket pool lets them out.
InFlight == IF Cardinality(Pending) > MaxSockets THEN MaxSockets ELSE Cardinality(Pending)

\* getLatestVersion's value from a package document: dist-tags.latest || null
LatestOf(info) == IF Truthy(info.latest) THEN info.latest ELSE Null

\* getVersions' value from a package document: Object.keys(versions || {})
VersionsOf(info) == info.versions

\* The outcome objects of Promise.allSettled. The reason of a rejected one (the
\* Error getPackageInfo throws: "not found" for a 404, "failed to fetch"
\* otherwise) is never read and is left out.
PendingSlot == [status |-> "pending", value |-> Null]

Fulfilled(v) == [status |-> "fulfilled", value |-> v]

Rejected == [status |-> "rejected", value |-> Null]

\* A slot index that follows the order of arrival: the first slot still pending.
ArrivalIndex(slots, idx) ==
    IF \E i \in 1..Len(slots) : slots[i].status = "pending"
    THEN CHOOSE i \in 1..Len(slots) :
            slots[i].status = "pending" /\ \A j \in 1..(i - 1) : slots[j].status # "pending"
    ELSE idx

\* Promise.allSettled puts an outcome at the index of its promise.
SettledIndex(slots, idx) == idx

Settle(slots, idx, outcome) == [slots EXCEPT ![SettledIndex(slots, idx)] = outcome]

\* getPackageInfo(name), called for slot idx of the batch `via` ("latest" or
\* "versions"; "info" for a direct client): a cache hit returns the stored
\* document without a request, a miss starts client.get.
GetPackageInfo(name, via, idx) ==
    IF CacheHit(cache, name, now)
    THEN /\ requests' = requests
         /\ latestVersions' = IF via = "latest"
                              THEN Settle(latestVersions, idx, Fulfilled(LatestOf(cache[name].info)))
                              ELSE latestVersions
         /\ allVersions' = IF via = "versions"
                           THEN Settle(allVersions, idx, Fulfilled(VersionsOf(cache[name].info)))
                           ELSE allVersions
    ELSE /\ requests' = Append(requests, [name |-> name, via |-> via, idx |-> idx,
                                          state |-> "pending", data |-> NoDoc])
         /\ UNCHANGED <<latestVersions, allVersions>>

\* The documents the modelled registry answers with.
RegistryDocs ==
    { [latest |-> Ver(1, 1, 0), versions |-> <<Ver(1, 0, 0), Ver(1, 1, 0), Ver(1, 0, 1)>>],
      NoDoc,
      [latest |-> Text("junk"), versions |-> <<Text("junk"), Ver(1, 0, 0)>>] }

\* The HTTP outcomes of a failed request: 404, or no response at all (0).
FailureStatuses == {404, 0}

\* client.get of request r resolves with the document `info`: the document is
\* cached and the caller's promise fulfils. The callback runs only when the
\* synchronous packageNames.map(...) that started the requests has returned.
RespondOk(r, info) ==
    /\ pc # "dispatch"
    /\ r \in Pending
    /\ requests' = [requests EXCEPT ![r].state = "fulfilled", ![r].data = info]
    /\ reordered' = (reordered \/ \E q \in Pending : q < r)
    /\ cache' = CacheSet(cache, requests[r].name, info, stdTTL, now)
    /\ latestVersions' = IF requests[r].via = "latest"
                         THEN Settle(latestVersions, requests[r].idx, Fulfilled(LatestOf(info)))
                         ELSE latestVersions
    /\ allVersions' = IF requests[r].via = "versions"
                      THEN Settle(allVersions, requests[r].idx, Fulfilled(VersionsOf(info)))
                      ELSE allVersions
    /\ UNCHANGED <<cmd, options, manifest, pc, exitCode, dependencies, packageNames, issued,
                   results, report>>
    /\ UNCHANGED <<limit, stdTTL, vulnCache, now, served>>
    /\ UNCHANGED fnVars
    /\ UNCHANGED ioVars

\* client.get of request r rejects, with a 404 or without a response:
\* getPackageInfo throws, nothing is cached and the caller's promise rejects.
RespondError(r, status) ==
    /\ pc # "dispatch"
    /\ r \in Pending
    /\ status \in FailureStatuses
    /\ requests' = [requests EXCEPT ![r].state = "rejected"]
    /\ reordered' = (reordered \/ \E q \in Pending : q < r)
    /\ latestVersions' = IF requests[r].via = "latest"
                         THEN Settle(latestVersions, requests[r].idx, Rejected)
                         ELSE latestVersions
    /\ allVersions' = IF requests[r].via = "versions"
                      THEN Settle(allVersions, requests[r].idx, Rejected)
                      ELSE allVersions
    /\ UNCHANGED <<cmd, options, manifest, pc, exitCode, dependencies, packageNames, issued,
                   results, report>>
    /\ UNCHANGED <<limit, stdTTL, cache, vulnCache, now, served>>
    /\ UNCHANGED fnVars
    /\ UNCHANGED ioVars

\* ------------------------------------------------------------ commands

NoReport == [built |-> FALSE]

\* checkCommand / updateCommand / auditCommand up to the batch: read the manifest and
\* extract the dependencies. An unreadable manifest and an exception both
\* end the process with status 1, a manifest without dependencies returns.
ParseManifest ==
    /\ pc = "start"
    /\ IF ~manifest.success \/ extractThrows(manifest.data)
       THEN /\ pc' = "exit"
            /\ exitCode' = 1
            /\ UNCHANGED <<dependencies, packageNames, latestVersions, allVersions>>
       ELSE LET deps == extractDependencies(manifest.data)
            IN  /\ dependencies' = deps
                /\ packageNames' = [i \in 1..Len(deps) |-> deps[i].name]
                /\ latestVersions' = IF cmd = "audit" THEN <<>>
                                     ELSE [i \in 1..Len(deps) |-> PendingSlot]
                /\ allVersions' = IF cmd = "update" THEN [i \in 1..Len(deps) |-> PendingSlot]
                                  ELSE <<>>
                /\ pc' = IF Len(deps) = 0 THEN "exit" ELSE "dispatch"
                /\ exitCode' = IF Len(deps) = 0 THEN 0 ELSE exitCode
    /\ UNCHANGED <<cmd, options, manifest, issued, results, report>>
    /\ UNCHANGED svcVars
    /\ UNCHANGED fnVars
    /\ UNCHANGED ioVars

\* The lookups of one batch: check maps getLatestVersion over the names;
\* update maps getLatestVersion and then getVersions over them.
BatchSize == IF cmd = "update" THEN 2 * Len(packageNames) ELSE Len(packageNames)

\* The next call of packageNames.map(...): it runs to its first await, the
\* cache lookup and client.get included, before the next one starts.
DispatchLookup ==
    /\ cmd \in {"check", "update"}
    /\ pc = "dispatch"
    /\ LET k == issued + 1
           n == Len(packageNames)
           idx == IF k <= n THEN k ELSE k - n
       IN  /\ GetPackageInfo(packageNames[idx], IF k <= n THEN "latest" ELSE "versions", idx)
           /\ issued' = k
           /\ pc' = IF k = BatchSize THEN "await" ELSE "dispatch"
    /\ UNCHANGED <<cmd, options, manifest, exitCode, dependencies, packageNames, results, report>>
    /\ UNCHANGED <<limit, stdTTL, cache, vulnCache, now, served, reordered>>
    /\ UNCHANGED fnVars
    /\ UNCHANGED ioVars

\* A join that resumes only when every lookup has fulfilled.
AllFulfilled(slots) == \A i \in 1..Len(slots) : slots[i].status = "fulfilled"

AllSettled(slots) == \A i \in 1..Len(slots) : slots[i].status # "pending"

\* A join that resumes as soon as one lookup has settled.
JoinedAny ==
    \/ \E i \in 1..Len(latestVersions) : latestVersions[i].status # "pending"
    \/ \E i \in 1..Len(allVersions) : allVersions[i].status # "pending"

\* The await of the batch is over: Promise.allSettled over the latest-version
\* lookups and, in update, Promise.all of it with the one over the version lists.
Joined == AllSettled(latestVersions) /\ AllSettled(allVersions)

\* Map.prototype.get
MapGet(map, name) == map[CHOOSE i \in 1..Len(map) : map[i].name = name]

\* Array.filter(...).length, from the outcomes of the filter's test on the
\* elements.
CountIf(passes) == Cardinality({i \in 1..Len(passes) : passes[i]})

\* The updateType of a result that has none (null).
NoType == "null"

\* dependency.range.clean || '0.0.0'
CleanOrZero(dependency) ==
    IF Truthy(dependency.range.clean) THEN dependency.range.clean ELSE Ver(0, 0, 0)

\* The loop body of checkDependencies raises: semver.gt gets a latest version
\* that is no valid version.
checkThrows(dependency, slot) ==
    /\ slot.status = "fulfilled"
    /\ Truthy(slot.value)
    /\ semverGtThrows(slot.value, CleanOrZero(dependency))

\* A lookup that finds one vulnerability for a package not seen before.
getVulnerabilitiesFound(keys, packageName, version) ==
    IF <<packageName, version>> \in keys THEN <<>> ELSE <<[id |-> "CVE", severity |-> "high"]>>

\* NpmRegistryService.getVulnerabilities, given the "vuln:" keys the cache
\* holds: a hit returns the stored list, which a miss has stored empty (an
\* empty array is truthy); a miss stores and returns a new empty list.
getVulnerabilities(keys, packageName, version) ==
    IF <<packageName, version>> \in keys THEN <<>> ELSE <<>>

\* The result record checkDependencies builds for one dependency.
checkResult(packageName, dependency, slot) ==
    LET has == slot.status = "fulfilled" /\ Truthy(slot.value)
        updateAvailable == has /\ semverGt(slot.value, CleanOrZero(dependency))
    IN  [name |-> packageName,
         currentVersion |-> dependency.version,
         latestVersion |-> IF has THEN slot.value ELSE Null,
         updateAvailable |-> updateAvailable,
         updateType |-> IF updateAvailable
                        THEN checkGetUpdateType(dependency.range.clean, slot.value)
                        ELSE NoType,
         vulnerabilities |-> IF Truthy(dependency.range.clean)
                             THEN getVulnerabilities(vulnCache, packageName,
                                                     dependency.range.clean)
                             ELSE <<>>,
         dependencyType |-> dependency.type,
         range |-> dependency.range]

\* One iteration of the loop of checkDependencies, up to its await of
\* getVulnerabilities (which stores and returns an empty list).
ProcessCheck ==
    /\ cmd = "check"
    /\ (pc = "await" /\ Joined) \/ pc = "process"
    /\ Len(results) < Len(packageNames)
    /\ LET i == Len(results) + 1
           packageName == packageNames[i]
           dependency == MapGet(dependencies, packageName)
       IN  IF checkThrows(dependency, latestVersions[i])
           THEN /\ pc' = "exit"
                /\ exitCode' = 1
                /\ UNCHANGED <<results, vulnCache>>
           ELSE /\ results' = Append(results, checkResult(packageName, dependency,
                                                          latestVersions[i]))
                /\ vulnCache' = IF Truthy(dependency.range.clean)
                                THEN vulnCache \cup {<<packageName, dependency.range.clean>>}
                                ELSE vulnCache
                /\ pc' = "process"
                /\ UNCHANGED exitCode
    /\ UNCHANGED <<cmd, options, manifest, dependencies, packageNames, issued,
                   latestVersions, allVersions, report>>
    /\ UNCHANGED <<limit, stdTTL, cache, requests, now, served, reordered>>
    /\ UNCHANGED fnVars
    /\ UNCHANGED ioVars

IsExactDep(d) == d.range.isExact

IsRangeDep(d) == ~d.range.isExact /\ d.range.isRange

IsInvalidDep(d) == ~d.range.isExact /\ ~d.range.isRange

\* PackageParser.getDependencyStats
getDependencyStats(packageJson) ==
    LET deps == extractDependencies(packageJson)
    IN  [total |-> Len(deps),
         byType |-> [t \in {dependencyTypes[k] : k \in 1..Len(dependencyTypes)} |->
                        Cardinality({i \in 1..Len(deps) : deps[i].type = t})],
         exactVersions |-> CountIf([i \in 1..Len(deps) |-> IsExactDep(deps[i])]),
         rangeVersions |-> CountIf([i \in 1..Len(deps) |-> IsRangeDep(deps[i])]),
         invalidVersions |-> CountIf([i \in 1..Len(deps) |-> IsInvalidDep(deps[i])])]

\* A test that does not take a major update for an update.
IsOutdatedNonMajor(r) == r.updateAvailable /\ r.updateType # "major"

IsOutdated(r) == r.updateAvailable

IsNotOutdated(r) == ~r.updateAvailable

\* A major count that takes in the updates of unknown type.
IsMajorOrUnknown(r) == r.updateType \in {"major", "unknown"}

IsMajor(r) == r.updateType = "major"

IsMinor(r) == r.updateType = "minor"

IsPatch(r) == r.updateType = "patch"

\* An up-to-date count that leaves out the dependencies without a latest version.
checkUpToDateKnownOnly(rs) ==
    Cardinality({i \in 1..Len(rs) : ~rs[i].updateAvailable /\ rs[i].latestVersion # Null})

\* summary.upToDate of generateReport
checkUpToDate(rs) == CountIf([i \in 1..Len(rs) |-> IsNotOutdated(rs[i])])

\* rs.reduce((sum, r) => sum + r.vulnerabilities.length, 0)
RECURSIVE SumVulnerabilities(_)
SumVulnerabilities(rs) ==
    IF rs = <<>> THEN 0 ELSE Len(Head(rs).vulnerabilities) + SumVulnerabilities(Tail(rs))

\* generateReport of commands/check.js
generateReport(rs, packageJson) ==
    [built |-> TRUE,
     summary |-> [total |-> Len(rs),
                  upToDate |-> checkUpToDate(rs),
                  outdated |-> CountIf([i \in 1..Len(rs) |-> IsOutdated(rs[i])]),
                  majorUpdates |-> CountIf([i \in 1..Len(rs) |-> IsMajor(rs[i])]),
                  minorUpdates |-> CountIf([i \in 1..Len(rs) |-> IsMinor(rs[i])]),
                  patchUpdates |-> CountIf([i \in 1..Len(rs) |-> IsPatch(rs[i])]),
                  vulnerabilities |-> SumVulnerabilities(rs)],
     stats |-> getDependencyStats(packageJson)]

GenerateReport ==
    /\ pc = "process"
    /\ cmd = "check"
    /\ Len(results) = Len(packageNames)
    /\ report' = generateReport(results, manifest.data)
    /\ pc' = "output"
    /\ UNCHANGED <<cmd, options, manifest, exitCode, dependencies, packageNames, issued,
                   latestVersions, allVersions, results>>
    /\ UNCHANGED svcVars
    /\ UNCHANGED fnVars
    /\ UNCHANGED ioVars

\* The output formats formatOutput knows; any other value prints the table.
Formats == {"table", "json", "csv"}

\* The comparator of formatTable's sort: outdated first, then by name.
TableBefore(a, b) ==
    IF a.updateAvailable # b.updateAvailable THEN a.updateAvailable
    ELSE NameRank(a.name) < NameRank(b.name)

\* x put into the sorted sequence s, before the first element it precedes.
TableInsert(s, x) ==
    LET later == {i \in 1..Len(s) : TableBefore(x, s[i])}
        at == IF later = {} THEN Len(s) + 1
              ELSE CHOOSE i \in later : \A j \in later : i <= j
    IN  SubSeq(s, 1, at - 1) \o <<x>> \o SubSeq(s, at, Len(s))

RECURSIVE TableSort(_)
TableSort(s) ==
    IF s = <<>> THEN <<>>
    ELSE TableInsert(TableSort(SubSeq(s, 1, Len(s) - 1)), s[Len(s)])

\* What formatOutput leaves in report.dependencies: formatTable sorts the
\* array in place, formatJson and formatCsv only read it.
formatOutput(deps, format) == IF format \in {"json", "csv"} THEN deps ELSE TableSort(deps)

\* The lines formatJson prints: JSON.stringify(report, null, 2) is one object
\* over several lines, from its opening brace to its closing brace, with the
\* report's members between them.
formatJson == <<"{", "package", "summary", "dependencies", "stats", "}">>

\* The lines formatCsv prints: the header and one row for each dependency.
formatCsv(deps) == <<"Package,...">> \o [i \in 1..Len(deps) |-> "row"]

\* The lines formatTable prints: its first console.log starts with a line
\* break, so the first line is empty; the rest stands for the table.
formatTable == <<"", "Dependency Check Report">>

\* What formatOutput writes to standard output.
consoleLog(deps, format) ==
    IF format = "json" THEN formatJson
    ELSE IF format = "csv" THEN formatCsv(deps)
    ELSE formatTable

\* The cache statistics checkCommand prints after the formatted output when
\* caching is enabled: console.log of a string that starts with a line break.
cacheStats(o) == IF o.cache # FALSE THEN <<"", "Cache hits: h, misses: m">> ELSE <<>>

\* formatOutput(report, options.format) and the cache statistics, then the
\* return of checkCommand. The spinner of ora writes to standard error.
FormatOutput(format) ==
    /\ pc = "output"
    /\ cmd = "check"
    /\ results' = formatOutput(results, format)
    /\ stdout' = stdout \o consoleLog(results, format) \o cacheStats(options)
    /\ pc' = "exit"
    /\ exitCode' = 0
    /\ UNCHANGED <<cmd, options, manifest, dependencies, packageNames, issued,
                   latestVersions, allVersions, report>>
    /\ UNCHANGED svcVars
    /\ UNCHANGED fnVars

\* -------------------------------------------------------------- update

\* x put into the descending sequence s, before the first element it exceeds
\* (the sort is stable: equal versions keep their order).
DescInsert(s, x) ==
    LET lower == {i \in 1..Len(s) : semverCompare(semverParse(x), semverParse(s[i])) = 1}
        at == IF lower = {} THEN Len(s) + 1
              ELSE CHOOSE i \in lower : \A j \in lower : i <= j
    IN  SubSeq(s, 1, at - 1) \o <<x>> \o SubSeq(s, at, Len(s))

\* The versions left in the order the registry lists them.
AsListed(s) == s

RECURSIVE SortDesc(_)
SortDesc(s) ==
    IF s = <<>> THEN <<>>
    ELSE DescInsert(SortDesc(SubSeq(s, 1, Len(s) - 1)), s[Len(s)])

RECURSIVE FilterValid(_)
FilterValid(s) ==
    IF s = <<>> THEN <<>>
    ELSE IF semverValid(Head(s)) # Null THEN <<Head(s)>> \o FilterValid(Tail(s))
    ELSE FilterValid(Tail(s))

RECURSIVE CollectUpdates(_, _, _)
CollectUpdates(sortedVersions, currentVersion, includeMajor) ==
    IF sortedVersions = <<>> THEN <<>>
    ELSE LET version == Head(sortedVersions)
             rest == CollectUpdates(Tail(sortedVersions), currentVersion, includeMajor)
             updateType == getUpdateType(currentVersion, version)
         IN  IF ~semverGt(version, currentVersion) THEN rest
             ELSE IF updateType = "major" /\ ~includeMajor THEN rest
             ELSE <<[version |-> version, type |-> updateType,
                     breaking |-> updateType = "major"]>> \o rest

\* An analysis that falls back to 0.0.0 when the declared version has no exact
\* version.
analyzeFromZero(currentRange, versions, includeMajor) ==
    CollectUpdates(SortDesc(FilterValid(versions)),
                   IF Truthy(currentRange.clean) THEN currentRange.clean ELSE Ver(0, 0, 0),
                   includeMajor)

\* analyzeAvailableUpdates
analyzeAvailableUpdates(currentRange, versions, includeMajor) ==
    IF ~Truthy(currentRange.clean) THEN <<>>
    ELSE CollectUpdates(SortDesc(FilterValid(versions)), currentRange.clean, includeMajor)

RECURSIVE FilterType(_, _)
FilterType(updates, type) ==
    IF updates = <<>> THEN <<>>
    ELSE IF Head(updates).type = type THEN <<Head(updates)>> \o FilterType(Tail(updates), type)
    ELSE FilterType(Tail(updates), type)

Recommendation(type, u, priority) ==
    [type |-> type, version |-> u.version, priority |-> priority, breaking |-> type = "major"]

\* A generator that recommends every available update, not the newest of each
\* type only.
generateRecommendationsAll(availableUpdates, includeMajor) ==
    [i \in 1..Len(availableUpdates) |->
        Recommendation(availableUpdates[i].type, availableUpdates[i],
                       IF availableUpdates[i].type = "patch" THEN "high"
                       ELSE IF availableUpdates[i].type = "minor" THEN "medium" ELSE "low")]

\* generateRecommendations
generateRecommendations(availableUpdates, includeMajor) ==
    LET patch == FilterType(availableUpdates, "patch")
        minor == FilterType(availableUpdates, "minor")
        major == FilterType(availableUpdates, "major")
    IN  IF availableUpdates = <<>> THEN <<>>
        ELSE (IF patch # <<>> THEN <<Recommendation("patch", patch[1], "high")>> ELSE <<>>)
             \o (IF minor # <<>> THEN <<Recommendation("minor", minor[1], "medium")>> ELSE <<>>)
             \o (IF includeMajor /\ major # <<>>
                 THEN <<Recommendation("major", major[1], "low")>> ELSE <<>>)

\* A result that recommends from the version list alone, whatever became of
\* the lookup of the latest version.
updateResultVersionsOnly(packageName, dependency, latestSlot, versionsSlot, includeMajor) ==
    LET has == latestSlot.status = "fulfilled" /\ Truthy(latestSlot.value)
        availableUpdates ==
            IF versionsSlot.status = "fulfilled"
            THEN analyzeAvailableUpdates(dependency.range, versionsSlot.value, includeMajor)
            ELSE <<>>
    IN  [name |-> packageName,
         currentVersion |-> dependency.version,
         currentRange |-> dependency.range,
         dependencyType |-> dependency.type,
         latestVersion |-> IF has THEN latestSlot.value ELSE Null,
         availableUpdates |-> availableUpdates,
         recommendations |-> generateRecommendations(availableUpdates, includeMajor)]

\* The result record getUpdateRecommendations builds for one dependency.
updateResult(packageName, dependency, latestSlot, versionsSlot, includeMajor) ==
    LET has == latestSlot.status = "fulfilled" /\ Truthy(latestSlot.value)
        availableUpdates ==
            IF has /\ versionsSlot.status = "fulfilled"
            THEN analyzeAvailableUpdates(dependency.range, versionsSlot.value, includeMajor)
            ELSE <<>>
    IN  [name |-> packageName,
         currentVersion |-> dependency.version,
         currentRange |-> dependency.range,
         dependencyType |-> dependency.type,
         latestVersion |-> IF has THEN latestSlot.value ELSE Null,
         availableUpdates |-> availableUpdates,
         recommendations |-> IF has THEN generateRecommendations(availableUpdates, includeMajor)
                             ELSE <<>>]

\* getUpdateRecommendations from its await on: the loop has no await, so all
\* the results are built in the step in which the batch is joined.
ProcessUpdate ==
    /\ cmd = "update"
    /\ pc = "await"
    /\ Joined
    /\ results' = [i \in 1..Len(packageNames) |->
                      updateResult(packageNames[i], MapGet(dependencies, packageNames[i]),
                                   latestVersions[i], allVersions[i], options.major)]
    /\ pc' = "process"
    /\ UNCHANGED <<cmd, options, manifest, exitCode, dependencies, packageNames, issued,
                   latestVersions, allVersions, report>>
    /\ UNCHANGED svcVars
    /\ UNCHANGED fnVars
    /\ UNCHANGED ioVars

HasNoRecommendation(r) == r.recommendations = <<>>

HasRecommendation(r) == r.recommendations # <<>>

\* The number of recommendations of the given type over all results
\* (allRecommendations.filter(...).length).
RECURSIVE CountRecommendations(_, _)
CountRecommendations(rs, type) ==
    IF rs = <<>> THEN 0
    ELSE Len(FilterType(Head(rs).recommendations, type)) + CountRecommendations(Tail(rs), type)

\* generateUpdateReport
generateUpdateReport(rs) ==
    [built |-> TRUE,
     summary |-> [total |-> Len(rs),
                  upToDate |-> CountIf([i \in 1..Len(rs) |-> HasNoRecommendation(rs[i])]),
                  hasUpdates |-> CountIf([i \in 1..Len(rs) |-> HasRecommendation(rs[i])]),
                  patchUpdates |-> CountRecommendations(rs, "patch"),
                  minorUpdates |-> CountRecommendations(rs, "minor"),
                  majorUpdates |-> CountRecommendations(rs, "major")]]

\* The lines displayUpdateResults prints: its first console.log starts with
\* a line break; the rest stands for the summary and the recommendations.
displayUpdateResults == <<"", "Update Recommendations">>

\* The lines handleDryRun prints on standard output (formatWarning writes
\* to standard error).
dryRunLines == <<"", "Dry Run Mode:", "Dry run completed. No changes were made to package.json">>

\* A dry run that writes the first recommended version of each package
\* into the dependencies section of the manifest.
handleDryRunApplies(packageFile, rs) ==
    [packageFile EXCEPT !.data.dependencies.entries =
        [i \in 1..Len(@) |->
            IF \E j \in 1..Len(rs) : rs[j].name = @[i][1] /\ rs[j].recommendations # <<>>
            THEN LET j == CHOOSE j \in 1..Len(rs) :
                              rs[j].name = @[i][1] /\ rs[j].recommendations # <<>>
                 IN  <<@[i][1], rs[j].recommendations[1].version>>
            ELSE @[i]]]

\* The manifest file after handleDryRun: it groups the recommendations and
\* prints them, and opens no file.
handleDryRun(packageFile, rs) == packageFile

\* updateCommand after getUpdateRecommendations: the report is generated
\* and displayed, handleDryRun runs under --dry-run when there is a
\* recommendation, and the command returns.
GenerateUpdateReport(dryRun) ==
    /\ pc = "process"
    /\ cmd = "update"
    /\ report' = generateUpdateReport(results)
    /\ LET ran == dryRun /\ report'.summary.hasUpdates > 0
       IN  /\ stdout' = stdout \o displayUpdateResults \o (IF ran THEN dryRunLines ELSE <<>>)
           /\ manifest' = IF ran THEN handleDryRun(manifest, results) ELSE manifest
    /\ pc' = "exit"
    /\ exitCode' = 0
    /\ UNCHANGED <<cmd, options, dependencies, packageNames, issued,
                   latestVersions, allVersions, results>>
    /\ UNCHANGED svcVars
    /\ UNCHANGED fnVars

\* ------------------------------------------------------- specification

\* The largest --parallel value tried.
MaxParallel == 2

\* The largest number of dependencies in a manifest.
MaxDeps == 2

\* The parsed options of each command. commander gives check its parallel
\* and cache options; update has the major flag.
CommandOptions(c) ==
    IF c = "check"
    THEN {[parallel |-> p, cache |-> ca, major |-> FALSE] : p \in 1..MaxParallel, ca \in BOOLEAN}
    ELSE {[parallel |-> 0, cache |-> TRUE, major |-> m] : m \in BOOLEAN}

\* The version specifiers of the manifests: an exact version, a caret range
\* and a value that is not a string.
ManifestSpecifiers ==
    {Ver(1, 0, 0), Str("ver", "^", 1, 0, 0, "", ""), Str("number", "", 0, 0, 0, "", "")}

ManifestData(entries) ==
    [t \in {dependencyTypes[k] : k \in 1..Len(dependencyTypes)} |->
        IF t = "dependencies" THEN Section(entries) ELSE NoSection]

\* The manifests: an unreadable one, and those whose dependencies section
\* lists the first k names, each with one of the specifiers and at most one
\* of them with another specifier than the exact version.
Manifests ==
    {[success |-> FALSE, data |-> ManifestData(<<>>)]} \cup
    UNION {{[success |-> TRUE,
             data |-> ManifestData([i \in 1..k |-> <<Names[i], sp[i]>>])] :
                sp \in {f \in [1..k -> ManifestSpecifiers] :
                           Cardinality({i \in 1..k : f[i] # Ver(1, 0, 0)}) <= 1}} :
           k \in 0..MaxDeps}

Init ==
    /\ cmd \in {"check", "update"}
    /\ options \in CommandOptions(cmd)
    /\ manifest \in Manifests
    /\ pc = "start"
    /\ exitCode = -1
    /\ dependencies = <<>>
    /\ packageNames = <<>>
    /\ issued = 0
    /\ latestVersions = <<>>
    /\ allVersions = <<>>
    /\ results = <<>>
    /\ report = NoReport
    /\ limit = ConstructorLimit(ServiceOptions(cmd, options))
    /\ stdTTL = ConstructorTTL(ServiceOptions(cmd, options))
    /\ cache = EmptyCache
    /\ vulnCache = {}
    /\ requests = <<>>
    /\ now = 0
    /\ served = <<>>
    /\ reordered = FALSE
    /\ fnIn = <<Null, Null>>
    /\ fnOut = NoOut
    /\ stdout = <<>>

Next ==
    \/ ParseManifest
    \/ DispatchLookup
    \/ \E r \in 1..Len(requests) : \E info \in RegistryDocs : RespondOk(r, info)
    \/ \E r \in 1..Len(requests) : \E status \in FailureStatuses : RespondError(r, status)
    \/ ProcessCheck
    \/ GenerateReport
    \/ \E format \in Formats : FormatOutput(format)
    \/ ProcessUpdate
    \/ \E dryRun \in BOOLEAN : GenerateUpdateReport(dryRun)

Spec == Init /\ [][Next]_vars

\* ------------------------------------- the registry service on its own

\* The most getPackageInfo calls a direct client makes.
MaxCalls == 3

\* The latest time the clock reaches, in seconds.
MaxClock == 1

\* The names a direct client asks for.
ClientNames == {Names[1], Names[2]}

\* A client calls getPackageInfo(name) on the service instance.
ClientCall(name) ==
    /\ pc = "service"
    /\ Len(served) < MaxCalls
    /\ GetPackageInfo(name, "info", 0)
    /\ served' = Append(served, [name |-> name,
                                 from |-> IF CacheHit(cache, name, now) THEN "cache"
                                          ELSE "registry"])
    /\ UNCHANGED cmdVars
    /\ UNCHANGED <<limit, stdTTL, cache, vulnCache, now, reordered>>
    /\ UNCHANGED fnVars
    /\ UNCHANGED ioVars

\* A second passes.
Tick ==
    /\ pc = "service"
    /\ now < MaxClock
    /\ now' = now + 1
    /\ UNCHANGED cmdVars
    /\ UNCHANGED <<limit, stdTTL, cache, vulnCache, requests, served, reordered>>
    /\ UNCHANGED fnVars
    /\ UNCHANGED ioVars

\* The service as checkCommand constructs it, with and without --no-cache.
InitService ==
    /\ cmd = "service"
    /\ options \in CommandOptions("check")
    /\ manifest = [success |-> FALSE, data |-> ManifestData(<<>>)]
    /\ pc = "service"
    /\ exitCode = -1
    /\ dependencies = <<>>
    /\ packageNames = <<>>
    /\ issued = 0
    /\ latestVersions = <<>>
    /\ allVersions = <<>>
    /\ results = <<>>
    /\ report = NoReport
    /\ limit = ConstructorLimit(ServiceOptions("check", options))
    /\ stdTTL = ConstructorTTL(ServiceOptions("check", options))
    /\ cache = EmptyCache
    /\ vulnCache = {}
    /\ requests = <<>>
    /\ now = 0
    /\ served = <<>>
    /\ reordered = FALSE
    /\ fnIn = <<Null, Null>>
    /\ fnOut = NoOut
    /\ stdout = <<>>

NextService ==
    \/ \E name \in ClientNames : ClientCall(name)
    \/ \E r \in 1..Len(requests) : \E info \in RegistryDocs : RespondOk(r, info)
    \/ \E r \in 1..Len(requests) : \E status \in FailureStatuses : RespondError(r, status)
    \/ Tick

SpecService == InitService /\ [][NextService]_vars

\* --------------------------------------------- the classifier on its own

\* The arguments the classifier is tried on: every version with numbers up to
\* MaxNum, a "v" prefix, a pre-release tag and build metadata or none of them,
\* and the strings and values that are no version.
ClassifierArgs ==
    {Str("ver", l, ma, mi, pa, pr, b) :
        l \in {"", "v"}, ma \in Nums, mi \in Nums, pa \in Nums, pr \in PreTags, b \in BuildTags}
    \cup {Null, Text(""), Text("junk"), Str("ver", "^", 1, 0, 0, "", ""),
          Str("ver", "=", 1, 0, 0, "", ""), Str("number", "", 0, 0, 0, "", "")}

\* Both copies of getUpdateType are called on the pair, and the one of
\* commands/update.js on the swapped pair.
Classify ==
    /\ pc = "classify"
    /\ fnOut = NoOut
    /\ stdout = <<>>
    /\ fnOut' = [type |-> getUpdateType(fnIn[1], fnIn[2]),
                 check |-> checkGetUpdateType(fnIn[1], fnIn[2]),
                 swapped |-> getUpdateType(fnIn[2], fnIn[1])]
    /\ UNCHANGED cmdVars
    /\ UNCHANGED svcVars
    /\ UNCHANGED fnIn
    /\ UNCHANGED ioVars

InitClassify ==
    /\ cmd = "classify"
    /\ options = [parallel |-> 0, cache |-> TRUE, major |-> FALSE]
    /\ manifest = [success |-> FALSE, data |-> ManifestData(<<>>)]
    /\ pc = "classify"
    /\ exitCode = -1
    /\ dependencies = <<>>
    /\ packageNames = <<>>
    /\ issued = 0
    /\ latestVersions = <<>>
    /\ allVersions = <<>>
    /\ results = <<>>
    /\ report = NoReport
    /\ limit = DefaultConcurrency
    /\ stdTTL = DefaultTTL
    /\ cache = EmptyCache
    /\ vulnCache = {}
    /\ requests = <<>>
    /\ now = 0
    /\ served = <<>>
    /\ reordered = FALSE
    /\ fnIn \in ClassifierArgs \X ClassifierArgs
    /\ fnOut = NoOut
    /\ stdout = <<>>

NextClassify == Classify

SpecClassify == InitClassify /\ [][NextClassify]_vars

\* ------------------------------------- one dependency through both commands

\* The longest list of published versions tried.
MaxVersions == 3

\* The version keys of a registry document: releases, a pre-release, a build
\* of a release, and a key that is no version.
PublishedVersions ==
    {Ver(1, 0, 0), Ver(1, 0, 1), Ver(1, 1, 0), Ver(1, 1, 1), Ver(2, 0, 0),
     Str("ver", "", 1, 0, 1, "beta", ""), Str("ver", "", 1, 1, 0, "", "b1"), Text("junk")}

\* Object.keys(versions): lists of distinct keys, in any order.
VersionLists ==
    UNION {{s \in [1..n -> PublishedVersions] : \A i, j \in 1..n : i # j => s[i] # s[j]} :
           n \in 0..MaxVersions}

\* The declared versions tried: exact ones, a caret range, a tag, the empty
\* string.
DeclaredVersions ==
    {Ver(1, 0, 0), Ver(1, 1, 1), Str("ver", "v", 1, 0, 0, "", ""),
     Str("ver", "", 1, 0, 0, "beta", ""), Str("ver", "^", 1, 0, 0, "", ""),
     Text("latest"), Text("")}

\* The dependency record extractDependencies makes for the declared version.
DependencyOf(version) ==
    [name |-> Names[1], version |-> version, type |-> dependencyTypes[1],
     range |-> parseVersionRange(version)]

\* dist-tags.latest of the document: absent, or one of its valid versions.
LatestChoices(versions) ==
    {Null} \cup {versions[i] : i \in {k \in 1..Len(versions) : semverValid(versions[k]) # Null}}

\* One dependency with the declared version fnIn.version, whose lookups
\* fulfilled with fnIn.latest and fnIn.versions, goes through the loop body of
\* getUpdateRecommendations and of checkDependencies and through both
\* report generators.
Recommend ==
    /\ pc = "recommend"
    /\ LET dependency == DependencyOf(fnIn.version)
           u == updateResult(dependency.name, dependency, Fulfilled(fnIn.latest),
                             Fulfilled(fnIn.versions), fnIn.major)
           c == checkResult(dependency.name, dependency, Fulfilled(fnIn.latest))
       IN  fnOut' = [update |-> u,
                     check |-> c,
                     updateSummary |-> generateUpdateReport(<<u>>).summary,
                     checkSummary |->
                         generateReport(<<c>>, ManifestData(<<<<dependency.name,
                                                                fnIn.version>>>>)).summary]
    /\ pc' = "recommended"
    /\ UNCHANGED <<cmd, options, manifest, exitCode, dependencies, packageNames, issued,
                   latestVersions, allVersions, results, report>>
    /\ UNCHANGED svcVars
    /\ UNCHANGED fnIn
    /\ UNCHANGED ioVars

InitRecommend ==
    /\ cmd = "recommend"
    /\ options = [parallel |-> 0, cache |-> TRUE, major |-> FALSE]
    /\ manifest = [success |-> FALSE, data |-> ManifestData(<<>>)]
    /\ pc = "recommend"
    /\ exitCode = -1
    /\ dependencies = <<>>
    /\ packageNames = <<>>
    /\ issued = 0
    /\ latestVersions = <<>>
    /\ allVersions = <<>>
    /\ results = <<>>
    /\ report = NoReport
    /\ limit = DefaultConcurrency
    /\ stdTTL = DefaultTTL
    /\ cache = EmptyCache
    /\ vulnCache = {}
    /\ requests = <<>>
    /\ now = 0
    /\ served = <<>>
    /\ reordered = FALSE
    /\ fnIn \in UNION {[version : DeclaredVersions, versions : {vs}, latest : LatestChoices(vs),
                        major : BOOLEAN] : vs \in VersionLists}
    /\ fnOut = NoOut
    /\ stdout = <<>>

NextRecommend == Recommend

SpecRecommend == InitRecommend /\ [][NextRecommend]_vars

\* ------------------------------------------- the range analyzer on its own

\* The version strings the analyzer is tried on: versions with numbers up to
\* MaxNum, bare or behind v, =, ^, ~ or >=, with a pre-release tag and build
\* metadata or without, and strings that are no version.
VersionStrings ==
    {Str("ver", l, ma, mi, pa, pr, b) :
        l \in {"", "v", "=", "^", "~", ">="}, ma \in Nums, mi \in Nums, pa \in Nums,
        pr \in PreTags, b \in BuildTags}
    \cup {Text(""), Text("*"), Text("latest"), Text("junk")}

\* parseVersionRange is called on the string fnIn.
ParseRange ==
    /\ pc = "parse"
    /\ fnOut' = parseVersionRange(fnIn)
    /\ pc' = "parsed"
    /\ UNCHANGED <<cmd, options, manifest, exitCode, dependencies, packageNames, issued,
                   latestVersions, allVersions, results, report>>
    /\ UNCHANGED svcVars
    /\ UNCHANGED fnIn
    /\ UNCHANGED ioVars

InitParse ==
    /\ cmd = "parse"
    /\ options = [parallel |-> 0, cache |-> TRUE, major |-> FALSE]
    /\ manifest = [success |-> FALSE, data |-> ManifestData(<<>>)]
    /\ pc = "parse"
    /\ exitCode = -1
    /\ dependencies = <<>>
    /\ packageNames = <<>>
    /\ issued = 0
    /\ latestVersions = <<>>
    /\ allVersions = <<>>
    /\ results = <<>>
    /\ report = NoReport
    /\ limit = DefaultConcurrency
    /\ stdTTL = DefaultTTL
    /\ cache = EmptyCache
    /\ vulnCache = {}
    /\ requests = <<>>
    /\ now = 0
    /\ served = <<>>
    /\ reordered = FALSE
    /\ fnIn \in VersionStrings
    /\ fnOut = NoOut
    /\ stdout = <<>>

NextParse == ParseRange

SpecParse == InitParse /\ [][NextParse]_vars

\* --------------------------------------------- the extraction on its own

\* The most entries of one manifest section.
MaxEntries == 2

\* The version a name is declared with in the k-th section, so that a record
\* tells which section its version comes from.
SectionVersions ==
    <<Ver(1, 0, 0), Str("ver", "^", 1, 0, 0, "", ""), Ver(1, 1, 0), Text("latest")>>

\* The values of the k-th section of a manifest: absent, or an object with up
\* to MaxEntries distinct names in any written order.
SectionsOf(k) ==
    {NoSection} \cup
    UNION {{Section([i \in 1..n |-> <<ns[i], SectionVersions[k]>>]) :
               ns \in {s \in [1..n -> NameSet] : \A i, j \in 1..n : i # j => s[i] # s[j]}} :
           n \in 0..MaxEntries}

\* The parsed manifests with these sections.
SectionedManifests ==
    {[dependencies |-> a, devDependencies |-> b, peerDependencies |-> c,
      optionalDependencies |-> d] :
        a \in SectionsOf(1), b \in SectionsOf(2), c \in SectionsOf(3), d \in SectionsOf(4)}

\* extractDependencies is called on the parsed manifest.
Extract ==
    /\ pc = "extract"
    /\ dependencies' = extractDependencies(manifest.data)
    /\ pc' = "extracted"
    /\ UNCHANGED <<cmd, options, manifest, exitCode, packageNames, issued,
                   latestVersions, allVersions, results, report>>
    /\ UNCHANGED svcVars
    /\ UNCHANGED fnVars
    /\ UNCHANGED ioVars

InitExtract ==
    /\ cmd = "extract"
    /\ options = [parallel |-> 0, cache |-> TRUE, major |-> FALSE]
    /\ manifest \in [success : {TRUE}, data : SectionedManifests]
    /\ pc = "extract"
    /\ exitCode = -1
    /\ dependencies = <<>>
    /\ packageNames = <<>>
    /\ issued = 0
    /\ latestVersions = <<>>
    /\ allVersions = <<>>
    /\ results = <<>>
    /\ report = NoReport
    /\ limit = DefaultConcurrency
    /\ stdTTL = DefaultTTL
    /\ cache = EmptyCache
    /\ vulnCache = {}
    /\ requests = <<>>
    /\ now = 0
    /\ served = <<>>
    /\ reordered = FALSE
    /\ fnIn = <<Null, Null>>
    /\ fnOut = NoOut
    /\ stdout = <<>>

NextExtract == Extract

SpecExtract == InitExtract /\ [][NextExtract]_vars

\* ------------------------------------------------------------ audit

\* severityLevels of performSecurityAudit, lowest first.
severityLevels == <<"low", "moderate", "high", "critical">>

\* A search that answers the length of the sequence for an absent element.
IndexOfOrLength(seq, x) ==
    IF \E i \in 1..Len(seq) : seq[i] = x
    THEN (CHOOSE i \in 1..Len(seq) : seq[i] = x /\ \A j \in 1..(i - 1) : seq[j] # x) - 1
    ELSE Len(seq)

\* Array.prototype.indexOf: the 0-based place of x in seq, -1 if absent.
IndexOf(seq, x) ==
    IF \E i \in 1..Len(seq) : seq[i] = x
    THEN (CHOOSE i \in 1..Len(seq) : seq[i] = x /\ \A j \in 1..(i - 1) : seq[j] # x) - 1
    ELSE -1

\* String.prototype.toLowerCase on the modelled --severity values.
ToLowerCase(s) == IF s = "HIGH" THEN "high" ELSE s

\* A filter that keeps only the findings above the threshold.
KeepsAbove(vuln, minSeverityIndex) == IndexOf(severityLevels, vuln.severity) > minSeverityIndex

\* The test of vulnerabilities.filter(...)
KeepsFinding(vuln, minSeverityIndex) == IndexOf(severityLevels, vuln.severity) >= minSeverityIndex

RECURSIVE FilterVulns(_, _)
FilterVulns(vulnerabilities, minSeverityIndex) ==
    IF vulnerabilities = <<>> THEN <<>>
    ELSE IF KeepsFinding(Head(vulnerabilities), minSeverityIndex)
         THEN <<Head(vulnerabilities)>> \o FilterVulns(Tail(vulnerabilities), minSeverityIndex)
         ELSE FilterVulns(Tail(vulnerabilities), minSeverityIndex)

\* mockVulnerabilities[name] || []
TableGet(table, name) == IF name \in DOMAIN table THEN table[name] ELSE <<>>

\* performSecurityAudit: the loop over the dependency map, from entry k on.
RECURSIVE AuditFrom(_, _, _, _)
AuditFrom(deps, k, table, minSeverityIndex) ==
    IF k > Len(deps) THEN <<>>
    ELSE LET filteredVulns == FilterVulns(TableGet(table, deps[k].name), minSeverityIndex)
             rest == AuditFrom(deps, k + 1, table, minSeverityIndex)
         IN  IF Len(filteredVulns) > 0
             THEN <<[package |-> deps[k].name,
                     currentVersion |-> deps[k].version,
                     dependencyType |-> deps[k].type,
                     vulnerabilities |-> filteredVulns]>> \o rest
             ELSE rest

\* An audit that looks up only the dependencies declared by an exact version.
performSecurityAuditExactOnly(deps, table, severityLevel) ==
    AuditFrom(SelectSeq(deps, LAMBDA d : d.range.isExact), 1, table,
              IndexOf(severityLevels, ToLowerCase(severityLevel)))

performSecurityAudit(deps, table, severityLevel) ==
    AuditFrom(deps, 1, table, IndexOf(severityLevels, ToLowerCase(severityLevel)))

\* auditResults.flatMap(...): every finding with the package fields added.
RECURSIVE FlatMapVulns(_)
FlatMapVulns(auditResults) ==
    IF auditResults = <<>> THEN <<>>
    ELSE LET result == Head(auditResults)
         IN  [i \in 1..Len(result.vulnerabilities) |->
                 [id |-> result.vulnerabilities[i].id,
                  severity |-> result.vulnerabilities[i].severity,
                  title |-> result.vulnerabilities[i].title,
                  package |-> result.package,
                  currentVersion |-> result.currentVersion,
                  dependencyType |-> result.dependencyType]]
             \o FlatMapVulns(Tail(auditResults))

generateAuditReport(auditResults, severityLevel) ==
    LET allVulnerabilities == FlatMapVulns(auditResults)
    IN  [built |-> TRUE,
         summary |-> [totalVulnerabilities |-> Len(allVulnerabilities),
                      affectedPackages |-> Len(auditResults),
                      severityCounts |->
                          [s \in {severityLevels[k] : k \in 1..Len(severityLevels)} |->
                              Cardinality({i \in 1..Len(allVulnerabilities) :
                                              allVulnerabilities[i].severity = s})],
                      minSeverity |-> severityLevel],
         vulnerabilities |-> allVulnerabilities,
         packages |-> auditResults]

\* severityOrder of displayAuditResults
severityOrder == [critical |-> 0, high |-> 1, moderate |-> 2, low |-> 3]

\* An insertion that puts x before the findings of its own severity.
SeverityInsertBeforeEqual(s, x) ==
    LET later == {i \in 1..Len(s) : severityOrder[s[i].severity] >= severityOrder[x.severity]}
        at == IF later = {} THEN Len(s) + 1 ELSE CHOOSE i \in later : \A j \in later : i <= j
    IN  SubSeq(s, 1, at - 1) \o <<x>> \o SubSeq(s, at, Len(s))

\* x put into the sorted sequence s before the first finding the comparator
\* orders after it (Array.prototype.sort is stable).
SeverityInsert(s, x) ==
    LET later == {i \in 1..Len(s) : severityOrder[s[i].severity] > severityOrder[x.severity]}
        at == IF later = {} THEN Len(s) + 1 ELSE CHOOSE i \in later : \A j \in later : i <= j
    IN  SubSeq(s, 1, at - 1) \o <<x>> \o SubSeq(s, at, Len(s))

\* report.vulnerabilities.sort((a, b) => severityOrder[a.severity] - severityOrder[b.severity])
RECURSIVE SeveritySort(_)
SeveritySort(s) ==
    IF s = <<>> THEN <<>>
    ELSE SeverityInsert(SeveritySort(SubSeq(s, 1, Len(s) - 1)), s[Len(s)])

\* auditCommand: performSecurityAudit over the extracted dependencies. It
\* makes no registry request.
PerformSecurityAudit ==
    /\ cmd = "audit"
    /\ pc = "dispatch"
    /\ results' = performSecurityAudit(dependencies, fnIn, options.severity)
    /\ pc' = "process"
    /\ UNCHANGED <<cmd, options, manifest, exitCode, dependencies, packageNames, issued,
                   latestVersions, allVersions, report>>
    /\ UNCHANGED svcVars
    /\ UNCHANGED fnVars
    /\ UNCHANGED ioVars

GenerateAuditReport ==
    /\ cmd = "audit"
    /\ pc = "process"
    /\ report' = generateAuditReport(results, options.severity)
    /\ pc' = "output"
    /\ UNCHANGED <<cmd, options, manifest, exitCode, dependencies, packageNames, issued,
                   latestVersions, allVersions, results>>
    /\ UNCHANGED svcVars
    /\ UNCHANGED fnVars
    /\ UNCHANGED ioVars

\* The lines displayAuditResults prints: its first console.log starts with
\* a line break; the rest stands for the summary and the listing.
displayAuditResults == <<"", "Security Audit Report">>

\* The lines handleAutoFix prints on standard output, one "Would update"
\* pair for each package with a finding.
autoFixLines(vulnerabilities) ==
    <<"", "Auto-fix Mode:">> \o
    [i \in 1..Cardinality({vulnerabilities[k].package : k \in 1..Len(vulnerabilities)}) |->
        "Would update"]

\* The manifest file after handleAutoFix: it prints what it would update
\* and opens no file.
handleAutoFix(packageFile, vulnerabilities) == packageFile

\* displayAuditResults sorts report.vulnerabilities in place and prints the
\* listing; handleAutoFix runs under --fix when there is a finding; the
\* command returns.
DisplayAuditResults(fix) ==
    /\ cmd = "audit"
    /\ pc = "output"
    /\ report' = [report EXCEPT !.vulnerabilities = SeveritySort(report.vulnerabilities)]
    /\ LET ran == fix /\ Len(report.vulnerabilities) > 0
       IN  /\ stdout' = stdout \o displayAuditResults \o
                         (IF ran THEN autoFixLines(report'.vulnerabilities) ELSE <<>>)
           /\ manifest' = IF ran THEN handleAutoFix(manifest, report'.vulnerabilities)
                          ELSE manifest
    /\ pc' = "exit"
    /\ exitCode' = 0
    /\ UNCHANGED <<cmd, options, dependencies, packageNames, issued,
                   latestVersions, allVersions, results>>
    /\ UNCHANGED svcVars
    /\ UNCHANGED fnVars

\* The most findings the vulnerability table holds for one package.
MaxFindings == 2

\* The packages the vulnerability table has entries for.
TableNames == {"lodash", "axios"}

\* A finding: its id (one per severity here, so that an id can occur twice),
\* its severity and, standing for its describing fields, its place in the
\* package's list.
Finding(severity, place) == [id |-> <<"CVE", severity>>, severity |-> severity, title |-> place]

FindingLists ==
    UNION {{[i \in 1..n |-> Finding(sv[i], i)] :
               sv \in [1..n -> {severityLevels[k] : k \in 1..Len(severityLevels)}]} :
           n \in 0..MaxFindings}

\* The vulnerability tables tried; mockVulnerabilities of the source (one
\* high finding for lodash, one moderate finding for axios) is one of them.
VulnerabilityTables == [TableNames -> FindingLists]

\* The --severity values tried.
SeverityOptions == {"low", "moderate", "high", "critical", "HIGH", "none"}

\* The manifests audited: the dependencies section in these written orders.
AuditManifests ==
    {[success |-> TRUE, data |-> ManifestData([i \in 1..Len(ns) |-> <<ns[i], Ver(1, 0, 0)>>])] :
        ns \in {<<"axios", "lodash">>, <<"lodash", "axios">>, <<"lodash">>, <<"react", "axios">>}}

InitAudit ==
    /\ cmd = "audit"
    /\ options \in [severity : SeverityOptions]
    /\ manifest \in AuditManifests
    /\ pc = "start"
    /\ exitCode = -1
    /\ dependencies = <<>>
    /\ packageNames = <<>>
    /\ issued = 0
    /\ latestVersions = <<>>
    /\ allVersions = <<>>
    /\ results = <<>>
    /\ report = NoReport
    /\ limit = ConstructorLimit(ServiceOptions(cmd, options))
    /\ stdTTL = ConstructorTTL(ServiceOptions(cmd, options))
    /\ cache = EmptyCache
    /\ vulnCache = {}
    /\ requests = <<>>
    /\ now = 0
    /\ served = <<>>
    /\ reordered = FALSE
    /\ fnIn \in VulnerabilityTables
    /\ fnOut = NoOut
    /\ stdout = <<>>

NextAudit ==
    \/ ParseManifest
    \/ PerformSecurityAudit
    \/ GenerateAuditReport
    \/ \E fix \in BOOLEAN : DisplayAuditResults(fix)

SpecAudit == InitAudit /\ [][NextAudit]_vars

\* --------------------------------------------------------- command line

\* The subcommands program.parse() dispatches to.
Commands == {"check", "update", "audit"}

\* The arguments commander answers itself: the help option, the help
\* command and the version option.
BuiltIns == {"--help", "help", "--version"}

\* The code of the CommanderError that program.parse() throws for them
\* under exitOverride(): the help option and the version option leave through
\* their own codes, the help command through help().
commanderCode(arg) ==
    IF arg = "--help" THEN "commander.helpDisplayed"
    ELSE IF arg = "help" THEN "commander.help"
    ELSE "commander.version"

\* The catch of the global error handler: the exit status for an error code.
globalErrorHandler(code) == IF code = "commander.help" THEN 0 ELSE 1

\* mockVulnerabilities of performSecurityAudit.
mockVulnerabilities == [lodash |-> <<Finding("high", 1)>>, axios |-> <<Finding("moderate", 1)>>]

\* program.parse() inside the global error handler: a subcommand's action
\* starts; a built-in throws, and the handler exits by the error's code.
ProgramParse ==
    /\ pc = "argv"
    /\ IF cmd \in Commands
       THEN /\ pc' = "start"
            /\ UNCHANGED exitCode
       ELSE /\ pc' = "exit"
            /\ exitCode' = globalErrorHandler(commanderCode(cmd))
    /\ UNCHANGED <<cmd, options, manifest, dependencies, packageNames, issued,
                   latestVersions, allVersions, results, report>>
    /\ UNCHANGED svcVars
    /\ UNCHANGED fnVars
    /\ UNCHANGED ioVars

\* The parsed options of a command line; audit has its severity threshold.
CliOptions(c) ==
    IF c = "audit" THEN [severity : SeverityOptions]
    ELSE IF c \in Commands THEN CommandOptions(c)
    ELSE {[parallel |-> 0, cache |-> TRUE, major |-> FALSE]}

\* Further declared versions for an audited package: a later exact version,
\* a dist-tag and a caret range.
AuditSpecifiers == {Ver(1, 1, 1), Text("latest"), Str("ver", "^", 1, 0, 0, "", "")}

\* The manifests of a command line: for an audit also lodash alone, declared
\* by each of the further versions.
CliManifests(c) ==
    IF c = "audit"
    THEN Manifests \cup {[success |-> TRUE, data |-> ManifestData(<<<<"lodash", v>>>>)] :
                            v \in AuditSpecifiers}
    ELSE IF c \in Commands THEN Manifests
    ELSE {[success |-> FALSE, data |-> ManifestData(<<>>)]}

InitCli ==
    /\ cmd \in Commands \cup BuiltIns
    /\ options \in CliOptions(cmd)
    /\ manifest \in CliManifests(cmd)
    /\ pc = "argv"
    /\ exitCode = -1
    /\ dependencies = <<>>
    /\ packageNames = <<>>
    /\ issued = 0
    /\ latestVersions = <<>>
    /\ allVersions = <<>>
    /\ results = <<>>
    /\ report = NoReport
    /\ limit = ConstructorLimit(ServiceOptions(cmd, options))
    /\ stdTTL = ConstructorTTL(ServiceOptions(cmd, options))
    /\ cache = EmptyCache
    /\ vulnCache = {}
    /\ requests = <<>>
    /\ now = 0
    /\ served = <<>>
    /\ reordered = FALSE
    /\ fnIn = IF cmd = "audit" THEN mockVulnerabilities ELSE <<Null, Null>>
    /\ fnOut = NoOut
    /\ stdout = <<>>

NextCli ==
    \/ ProgramParse
    \/ ParseManifest
    \/ DispatchLookup
    \/ \E r \in 1..Len(requests) : \E info \in RegistryDocs : RespondOk(r, info)
    \/ \E r \in 1..Len(requests) : \E status \in FailureStatuses : RespondError(r, status)
    \/ ProcessCheck
    \/ GenerateReport
    \/ \E format \in Formats : FormatOutput(format)
    \/ ProcessUpdate
    \/ \E dryRun \in BOOLEAN : GenerateUpdateReport(dryRun)
    \/ PerformSecurityAudit
    \/ GenerateAuditReport
    \/ \E fix \in BOOLEAN : DisplayAuditResults(fix)

SpecCli == InitCli /\ [][NextCli]_vars

\* ------------------------------------------------------------ scheduling

\* The steps of the command that build a whole structure at once: the
\* dependency map, the check report, the update results.
BuildStep ==
    \/ ParseManifest
    \/ GenerateReport
    \/ ProcessUpdate

\* The condition under which a BuildStep can be taken: the guards of the
\* three steps (each of them changes pc).
BuildReady ==
    \/ pc = "start"
    \/ pc = "process" /\ cmd = "check" /\ Len(results) = Len(packageNames)
    \/ cmd = "update" /\ pc = "await" /\ Joined

\* The other steps of the command.
CommandStep ==
    \/ ProgramParse
    \/ DispatchLookup
    \/ ProcessCheck
    \/ \E format \in Formats : FormatOutput(format)
    \/ \E dryRun \in BOOLEAN : GenerateUpdateReport(dryRun)
    \/ PerformSecurityAudit
    \/ GenerateAuditReport
    \/ \E fix \in BOOLEAN : DisplayAuditResults(fix)

\* Request r settles: client.get fulfils or rejects.
Settles(r) ==
    \/ \E info \in RegistryDocs : RespondOk(r, info)
    \/ \E status \in FailureStatuses : RespondError(r, status)

\* The most requests an invocation makes: two for each dependency.
MostRequests == 2 * MaxDeps

\* The command line with its scheduling. Once the promise a command awaits
\* has settled, the event loop runs the continuation: weak fairness of the
\* command's steps (for BuildStep in its expanded form, with the enabling
\* condition written out as BuildReady). Every registry request eventually
\* fulfils or rejects: the client is created with a timeout.
SpecLive ==
    /\ InitCli
    /\ [][NextCli]_vars
    /\ WF_vars(CommandStep)
    /\ ([]<>(~BuildReady) \/ []<><<BuildStep>>_vars)
    /\ \A r \in 1..MostRequests : WF_vars(Settles(r))

\* ---------------------------------------------------------------- claims

\* C1: at every moment of an invocation the registry requests in flight are
\* at most the concurrency limit the service was configured with.
C1_InFlightWithinLimit == InFlight <= limit

\* C2: with --no-cache the service never returns a stored result: every
\* getPackageInfo call, a repeated one for the same package included, is
\* answered by a fresh registry request.
C2_NoCacheAlwaysFetches ==
    ~options.cache => \A i \in 1..Len(served) : served[i].from = "registry"

\* The dependencies of a check whose lookup rejected or fulfilled without a
\* latest version.
FailedLookups ==
    {i \in 1..Len(latestVersions) :
        \/ latestVersions[i].status = "rejected"
        \/ latestVersions[i].status = "fulfilled" /\ ~Truthy(latestVersions[i].value)}

\* Whether results holds a record for the name, and the record.
HasResult(name) == \E k \in 1..Len(results) : results[k].name = name

ResultOf(name) == results[CHOOSE k \in 1..Len(results) : results[k].name = name]

\* C3: when a check with a failed lookup has ended, it has ended with a
\* report; the report lists the failed dependency with latestVersion absent,
\* updateAvailable false and updateType null, and every other dependency
\* with the record its own lookup gives.
C3_FailedLookupIsolated ==
    (cmd = "check" /\ pc = "exit" /\ manifest.success /\ FailedLookups # {}) =>
        /\ exitCode = 0
        /\ report.built
        /\ \A i \in 1..Len(packageNames) :
              /\ HasResult(packageNames[i])
              /\ i \in FailedLookups =>
                    /\ ResultOf(packageNames[i]).latestVersion = Null
                    /\ ~ResultOf(packageNames[i]).updateAvailable
                    /\ ResultOf(packageNames[i]).updateType = NoType
              /\ i \notin FailedLookups =>
                    ResultOf(packageNames[i]) =
                        checkResult(packageNames[i], MapGet(dependencies, packageNames[i]),
                                    latestVersions[i])

\* C4: once the manifest has been read and parsed, check and update do not
\* fail: the invocation ends with status 0 whatever its dependencies,
\* lookups and latest versions are.
C4_ReadableManifestNeverFails ==
    (pc = "exit" /\ manifest.success) => exitCode = 0

\* The request getPackageInfo made for a name in one of the two batches, and
\* what its promise settled to.
OwnRequest(name, via) ==
    requests[CHOOSE r \in 1..Len(requests) : requests[r].name = name /\ requests[r].via = via]

OwnOutcome(name, via) ==
    LET q == OwnRequest(name, via)
    IN  IF q.state = "fulfilled"
        THEN Fulfilled(IF via = "latest" THEN LatestOf(q.data) ELSE VersionsOf(q.data))
        ELSE IF q.state = "rejected" THEN Rejected
        ELSE PendingSlot

\* The results are as checkDependencies / getUpdateRecommendations built
\* them: the table output has not sorted them.
ResultsAsBuilt == pc \in {"process", "output"} \/ (pc = "exit" /\ cmd = "update")

\* C5: whatever the completion order of the lookups, the results are in the
\* order of the extracted names, and each is built from the outcome of the
\* lookups of its own name.
C5_ResultsInOrderFromOwnLookup ==
    ResultsAsBuilt =>
        \A i \in 1..Len(results) :
            /\ results[i].name = packageNames[i]
            /\ results[i] =
                 IF cmd = "check"
                 THEN checkResult(packageNames[i], MapGet(dependencies, packageNames[i]),
                                  OwnOutcome(packageNames[i], "latest"))
                 ELSE updateResult(packageNames[i], MapGet(dependencies, packageNames[i]),
                                   OwnOutcome(packageNames[i], "latest"),
                                   OwnOutcome(packageNames[i], "versions"), options.major)

\* C5's case: lookups completed out of order, and two results with different
\* latest versions were built.
C5_Witness ==
    /\ reordered
    /\ ResultsAsBuilt
    /\ Len(results) >= 2
    /\ results[1].latestVersion # results[2].latestVersion
    /\ results[2].latestVersion # Null

\* C6: no result record is built and no report is generated while a lookup
\* of the batch has not been started or has not settled.
C6_JoinBarrier ==
    (Len(results) > 0 \/ report.built) => (issued = BatchSize /\ Pending = {})

\* C6's case: a batch of several lookups has settled and results are built.
C6_Witness == Len(results) > 0 /\ Len(requests) >= 2 /\ Pending = {}

\* C7: each dependency name causes exactly one registry request in an
\* invocation: never more than one, and one once the batch is dispatched.
C7_OneRequestPerName ==
    \A i \in 1..Len(packageNames) :
        LET n == Cardinality({r \in 1..Len(requests) : requests[r].name = packageNames[i]})
        IN  n <= 1 /\ (pc \in {"await", "process", "output"} => n = 1)

\* The dependencies of an update whose latest-version lookup failed.
FailedNames == {packageNames[i] : i \in FailedLookups}

\* C8: in every report, upToDate + outdated = total (check) and
\* upToDate + hasUpdates = total (update), and the dependencies whose lookup
\* failed are among those counted as up to date.
C8_SummaryPartition ==
    report.built =>
        /\ report.summary.total = Len(packageNames)
        /\ report.summary.upToDate >= Cardinality(FailedLookups)
        /\ IF cmd = "check"
           THEN /\ report.summary.upToDate + report.summary.outdated = report.summary.total
                /\ \A n \in FailedNames : ~ResultOf(n).updateAvailable
           ELSE /\ report.summary.upToDate + report.summary.hasUpdates = report.summary.total
                /\ \A n \in FailedNames : ResultOf(n).recommendations = <<>>

\* C8's case: a check report over a failed lookup and an outdated dependency.
C8_Witness ==
    /\ report.built
    /\ cmd = "check"
    /\ FailedLookups # {}
    /\ report.summary.outdated >= 1

\* The classification the rule gives from the numbers written in the two
\* version strings.
ExpectedType(a, b) ==
    IF ~Truthy(a) \/ ~Truthy(b) \/ semverParse(a) = Null \/ semverParse(b) = Null THEN "unknown"
    ELSE IF b.major > a.major THEN "major"
    ELSE IF b.minor > a.minor THEN "minor"
    ELSE IF b.patch > a.patch THEN "patch"
    ELSE "none"

\* A version string without its pre-release tag and build metadata.
WithoutSuffix(s) == [s EXCEPT !.pre = "", !.build = ""]

\* C9: getUpdateType returns unknown for a missing or unparseable argument,
\* else major / minor / patch / none by the first greater number of the
\* candidate; pre-release and build suffixes do not change the result.
C9_ClassifierRule ==
    fnOut # NoOut =>
        /\ fnOut.type = ExpectedType(fnIn[1], fnIn[2])
        /\ fnOut.check = ExpectedType(fnIn[1], fnIn[2])
        /\ fnOut.type = ExpectedType(WithoutSuffix(fnIn[1]), WithoutSuffix(fnIn[2]))

\* C9's case: a minor update classified from versions that carry suffixes.
C9_Witness ==
    /\ fnOut.type = "minor"
    /\ fnIn[1].build # ""
    /\ fnIn[2].pre # ""

UpdateTypes == {"major", "minor", "patch"}

\* C10: for valid versions a and b at most one of classify(a, b) and
\* classify(b, a) is major, minor or patch, and both are none only when a and
\* b have the same major, minor and patch numbers.
C10_Antisymmetry ==
    (fnOut # NoOut /\ semverParse(fnIn[1]) # Null /\ semverParse(fnIn[2]) # Null) =>
        /\ ~(fnOut.type \in UpdateTypes /\ fnOut.swapped \in UpdateTypes)
        /\ (fnOut.type = "none" /\ fnOut.swapped = "none") =>
              /\ fnIn[1].major = fnIn[2].major
              /\ fnIn[1].minor = fnIn[2].minor
              /\ fnIn[1].patch = fnIn[2].patch

\* C11: the classifier of the check report and the classifier of the update
\* recommendations return the same classification for every pair of
\* arguments, missing and unparseable ones included.
C11_ClassifiersAgree == fnOut # NoOut => fnOut.check = fnOut.type

\* C11's case: both copies were called with a first argument that is a string
\* but no version.
C11_Witness == fnOut.check = "unknown" /\ fnIn[1].kind = "text" /\ fnIn[2].kind = "ver"

Buckets == {"patch", "minor", "major"}

\* The recommendations of the given bucket among recs, by position.
InBucket(recs, bucket) == {i \in 1..Len(recs) : recs[i].type = bucket}

\* C12: update emits at most one recommendation per bucket (patch, minor,
\* major), so at most three per dependency, and a major one only when
\* includeMajor is true.
C12_OnePerBucket ==
    pc = "recommended" =>
        LET recs == fnOut.update.recommendations
        IN  /\ \A i \in 1..Len(recs) : recs[i].type \in Buckets
            /\ \A b \in Buckets : Cardinality(InBucket(recs, b)) <= 1
            /\ Len(recs) <= 3
            /\ ~fnIn.major => InBucket(recs, "major") = {}

\* C12's case: the published versions hold two patch updates of the declared
\* version, and one patch recommendation was emitted.
C12_Witness ==
    /\ pc = "recommended"
    /\ Cardinality(InBucket(fnOut.update.availableUpdates, "patch")) >= 2
    /\ Cardinality(InBucket(fnOut.update.recommendations, "patch")) = 1

\* The exact version of the declared version of the dependency (range.clean).
CurrentOf(in) == DependencyOf(in.version).range.clean

\* The published versions a bucket draws from: valid, strictly greater than
\* the current version and classified into the bucket.
Candidates(in, bucket) ==
    {k \in 1..Len(in.versions) :
        /\ semverValid(in.versions[k]) # Null
        /\ semverGt(in.versions[k], CurrentOf(in))
        /\ getUpdateType(CurrentOf(in), in.versions[k]) = bucket}

PriorityOf(bucket) ==
    IF bucket = "patch" THEN "high" ELSE IF bucket = "minor" THEN "medium" ELSE "low"

\* C13: the recommendation of a bucket carries a published version that is
\* valid, strictly greater than the current exact version and of that
\* bucket, and no other such version is greater; its priority is high /
\* medium / low for patch / minor / major and it is breaking iff major.
C13_NewestOfBucket ==
    pc = "recommended" =>
        \A i \in 1..Len(fnOut.update.recommendations) :
            LET r == fnOut.update.recommendations[i]
            IN  /\ \E k \in Candidates(fnIn, r.type) : fnIn.versions[k] = r.version
                /\ \A k \in Candidates(fnIn, r.type) :
                      semverCompare(semverParse(fnIn.versions[k]), semverParse(r.version)) <= 0
                /\ r.priority = PriorityOf(r.type)
                /\ r.breaking = (r.type = "major")

\* C13's case: a recommendation whose version is listed after a lower version
\* of the same bucket.
C13_Witness ==
    /\ pc = "recommended"
    /\ \E i \in 1..Len(fnOut.update.recommendations) :
          LET r == fnOut.update.recommendations[i]
          IN  \E j, k \in Candidates(fnIn, r.type) :
                 /\ j < k
                 /\ fnIn.versions[k] = r.version
                 /\ semverCompare(semverParse(fnIn.versions[j]), semverParse(r.version)) = -1

\* C14: a dependency whose declared version has no exact version (a
\* comparator range, a tag, malformed text) gets no available updates and no
\* recommendations, whatever the registry returns and whatever includeMajor is.
C14_NoBaselineNoUpdates ==
    (pc = "recommended" /\ ~DependencyOf(fnIn.version).range.isExact) =>
        /\ fnOut.update.availableUpdates = <<>>
        /\ fnOut.update.recommendations = <<>>

\* C14's case: a caret range, major updates asked for, and a registry that
\* has a latest version and a release above the range's version.
C14_Witness ==
    /\ pc = "recommended"
    /\ fnIn.version.lead = "^"
    /\ fnIn.major
    /\ fnIn.latest # Null
    /\ \E k \in 1..Len(fnIn.versions) : fnIn.versions[k] = Ver(2, 0, 0)
    /\ fnOut.update.recommendations = <<>>

\* The declared version is exact, the registry's latest version and every
\* published version newer than the declared one are major updates of it.
OnlyMajorNewer(in) ==
    /\ DependencyOf(in.version).range.isExact
    /\ in.latest # Null
    /\ semverGt(in.latest, CurrentOf(in))
    /\ Candidates(in, "major") # {}
    /\ \A k \in 1..Len(in.versions) :
          (semverValid(in.versions[k]) # Null /\ semverGt(in.versions[k], CurrentOf(in)))
              => k \in Candidates(in, "major")
    /\ getUpdateType(CurrentOf(in), in.latest) = "major"

\* C15: for an exact declared version whose only newer published versions
\* are major updates, and includeMajor false, update emits no recommendation
\* and counts the dependency as up to date, while check reports updateType
\* major for it and counts it as outdated.
C15_MajorOnlySuppressed ==
    (pc = "recommended" /\ OnlyMajorNewer(fnIn) /\ ~fnIn.major) =>
        /\ fnOut.update.recommendations = <<>>
        /\ fnOut.updateSummary.upToDate = 1
        /\ fnOut.updateSummary.hasUpdates = 0
        /\ fnOut.check.updateAvailable
        /\ fnOut.check.updateType = "major"
        /\ fnOut.checkSummary.outdated = 1
        /\ fnOut.checkSummary.upToDate = 0

\* C15's case: 1.1.1 declared, 2.0.0 the latest and the only newer version
\* among the published ones, and includeMajor false.
C15_Witness ==
    /\ pc = "recommended"
    /\ OnlyMajorNewer(fnIn)
    /\ ~fnIn.major
    /\ fnIn.version = Ver(1, 1, 1)
    /\ fnIn.latest = Ver(2, 0, 0)
    /\ Len(fnIn.versions) >= 2

\* C16: in the result of parseVersionRange isExact and isRange are never both
\* true; both are false only for a string that is neither an exact version
\* nor a valid range; clean, major, minor and patch are present iff isExact;
\* a caret range is not exact, is a range and has no numbers.
C16_RangeInfoConsistent ==
    pc = "parsed" =>
        /\ ~(fnOut.isExact /\ fnOut.isRange)
        /\ (~fnOut.isExact /\ ~fnOut.isRange) =>
              (semverParse(StripLead(fnIn)) = Null /\ semverValidRange(fnIn) = Null)
        /\ fnOut.isExact <=> fnOut.clean # Null
        /\ fnOut.isExact <=> fnOut.major # NoNum
        /\ fnOut.isExact <=> fnOut.minor # NoNum
        /\ fnOut.isExact <=> fnOut.patch # NoNum
        /\ (fnIn.kind = "ver" /\ fnIn.lead = "^") =>
              (~fnOut.isExact /\ fnOut.isRange /\ fnOut.major = NoNum)

\* C16's case: an exact version written with metadata was analyzed, which
\* semver takes for a range as well.
C16_Witness ==
    /\ pc = "parsed"
    /\ fnOut.isExact
    /\ fnOut.range # Null
    /\ fnIn.build # ""

\* The sections of the manifest that declare the name, by index in the fixed
\* order, and the place of the name in a section.
SectionsWith(name) ==
    {k \in 1..Len(dependencyTypes) :
        LET deps == manifest.data[dependencyTypes[k]]
        IN  deps.obj /\ \E i \in 1..Len(deps.entries) : deps.entries[i][1] = name}

PlaceIn(name, k) ==
    LET deps == manifest.data[dependencyTypes[k]]
    IN  CHOOSE i \in 1..Len(deps.entries) : deps.entries[i][1] = name

LastSectionWith(name) == CHOOSE k \in SectionsWith(name) : \A j \in SectionsWith(name) : j <= k

RecordsOf(name) == {i \in 1..Len(dependencies) : dependencies[i].name = name}

\* C17: the extracted map holds exactly one record for a name declared in one
\* or more sections, with the version and the section kind of the last
\* section declaring it in the order dependencies, devDependencies,
\* peerDependencies, optionalDependencies.
C17_LastSectionWins ==
    pc = "extracted" =>
        \A name \in NameSet :
            IF SectionsWith(name) = {} THEN RecordsOf(name) = {}
            ELSE /\ Cardinality(RecordsOf(name)) = 1
                 /\ LET k == LastSectionWith(name)
                        rec == MapGet(dependencies, name)
                    IN  /\ rec.type = dependencyTypes[k]
                        /\ rec.version =
                              manifest.data[dependencyTypes[k]].entries[PlaceIn(name, k)][2]
                        /\ rec.range = parseVersionRange(rec.version)

\* C17's case: a name declared in three sections was extracted.
C17_Witness ==
    /\ pc = "extracted"
    /\ \E name \in NameSet : Cardinality(SectionsWith(name)) >= 3

SectionRank(type) == CHOOSE k \in 1..Len(dependencyTypes) : dependencyTypes[k] = type

\* C18: in the iteration order of the extracted map every record of an
\* earlier section kind precedes every record of a later one, and records of
\* the same section kind are in the order written in that section.
C18_SectionThenManifestOrder ==
    pc = "extracted" =>
        \A i, j \in 1..Len(dependencies) :
            i < j =>
                LET a == dependencies[i]
                    b == dependencies[j]
                IN  /\ SectionRank(a.type) <= SectionRank(b.type)
                    /\ a.type = b.type =>
                          PlaceIn(a.name, SectionRank(a.type)) < PlaceIn(b.name, SectionRank(b.type))

\* The rank of a severity under low < moderate < high < critical.
SeverityRank(severity) ==
    IF severity = "low" THEN 1 ELSE IF severity = "moderate" THEN 2
    ELSE IF severity = "high" THEN 3 ELSE 4

\* The findings of the table for a package that the threshold lets through,
\* in the table's order.
KeptFindings(name) ==
    SelectSeq(TableGet(fnIn, name),
              LAMBDA v : SeverityRank(v.severity) >= SeverityRank(options.severity))

ResultsFor(name) == {i \in 1..Len(results) : results[i].package = name}

\* C19: for a threshold among low, moderate, high, critical the audit result
\* holds, for each dependency, exactly the findings of its table entry whose
\* severity rank is at least the threshold's, in the table's order and with
\* repeated ids kept; a package without such a finding is not in the result.
C19_ThresholdFilter ==
    (cmd = "audit" /\ pc \in {"process", "output", "exit"}
        /\ options.severity \in {"low", "moderate", "high", "critical"}) =>
        /\ \A i \in 1..Len(dependencies) :
              LET name == dependencies[i].name
              IN  IF KeptFindings(name) = <<>> THEN ResultsFor(name) = {}
                  ELSE /\ Cardinality(ResultsFor(name)) = 1
                       /\ \A k \in ResultsFor(name) :
                             results[k].vulnerabilities = KeptFindings(name)
        /\ \A k \in 1..Len(results) :
              \E i \in 1..Len(dependencies) : dependencies[i].name = results[k].package

\* C19's case: threshold high; one package has a moderate and a high finding
\* and keeps the high one only, the other has two findings with one id and
\* keeps both.
C19_Witness ==
    /\ cmd = "audit"
    /\ pc = "process"
    /\ options.severity = "high"
    /\ \E k \in 1..Len(results) :
          /\ Len(TableGet(fnIn, results[k].package)) = 2
          /\ Len(results[k].vulnerabilities) = 1
          /\ results[k].vulnerabilities[1].severity = "high"
    /\ \E k \in 1..Len(results) :
          /\ Len(results[k].vulnerabilities) = 2
          /\ results[k].vulnerabilities[1].id = results[k].vulnerabilities[2].id

\* The place of a package in the iteration order of the dependency map.
DependencyIndex(name) == CHOOSE i \in 1..Len(dependencies) : dependencies[i].name = name

\* Finding a was inserted before finding b: its package comes first in the
\* manifest, or they are of one package and a comes first in its list.
InsertedBefore(a, b) ==
    \/ DependencyIndex(a.package) < DependencyIndex(b.package)
    \/ a.package = b.package /\ a.title < b.title

\* C20: the final listing of an audit holds the findings of the report from
\* the highest to the lowest severity, and findings of equal severity in the
\* order they were inserted (manifest order, then the package's own order).
C20_ListingBySeverityStable ==
    (cmd = "audit" /\ pc = "exit" /\ report.built) =>
        LET listing == report.vulnerabilities
        IN  /\ Len(listing) = report.summary.totalVulnerabilities
            /\ \A i \in 1..Len(listing) :
                  \E k \in ResultsFor(listing[i].package) :
                     \E n \in 1..Len(results[k].vulnerabilities) :
                        /\ results[k].vulnerabilities[n].title = listing[i].title
                        /\ results[k].vulnerabilities[n].severity = listing[i].severity
            /\ \A i, j \in 1..Len(listing) :
                  i < j =>
                     /\ SeverityRank(listing[i].severity) >= SeverityRank(listing[j].severity)
                     /\ listing[i].severity = listing[j].severity =>
                           InsertedBefore(listing[i], listing[j])

\* C20's case: the listing starts with a finding that was inserted after the
\* one next to it, and holds two findings of one severity from two packages.
C20_Witness ==
    /\ cmd = "audit"
    /\ pc = "exit"
    /\ report.built
    /\ Len(report.vulnerabilities) >= 3
    /\ InsertedBefore(report.vulnerabilities[2], report.vulnerabilities[1])
    /\ \E i, j \in 1..Len(report.vulnerabilities) :
          /\ i < j
          /\ report.vulnerabilities[i].severity = report.vulnerabilities[j].severity
          /\ report.vulnerabilities[i].package # report.vulnerabilities[j].package


\* An exception reached the catch of the command's handler: extractDependencies
\* raised, or the loop of checkDependencies did.
ErrorReachedHandler ==
    \/ manifest.success /\ extractThrows(manifest.data)
    \/ /\ cmd = "check"
       /\ \E i \in 1..Len(packageNames) :
              /\ latestVersions[i] # PendingSlot
              /\ checkThrows(MapGet(dependencies, packageNames[i]), latestVersions[i])

\* C21: the process exits with status 1 exactly when the manifest cannot be
\* read or an error reaches the command's handler, and with status 0 in every
\* other case, a help request included.
C21_ExitStatus ==
    pc = "exit" =>
        exitCode = IF cmd \in Commands /\ (~manifest.success \/ ErrorReachedHandler)
                   THEN 1 ELSE 0


\* The dependency sequence as checkDependencies produced it.
DependenciesAsProduced ==
    [i \in 1..Len(packageNames) |->
        checkResult(packageNames[i], MapGet(dependencies, packageNames[i]), latestVersions[i])]

\* C22: after a report has been presented (the check report in any format,
\* the audit report by its display) its dependency sequence and its
\* vulnerability sequence hold the same elements in the same order as when
\* the aggregator produced them.
C22_PresentationKeepsOrder ==
    (pc = "exit" /\ report.built) =>
        /\ cmd = "check" => results = DependenciesAsProduced
        /\ cmd = "audit" => report.vulnerabilities = FlatMapVulns(results)


RECURSIVE TrimLines(_)
TrimLines(lines) ==
    IF lines = <<>> THEN <<>>
    ELSE IF Head(lines) = "" THEN TrimLines(Tail(lines))
    ELSE IF lines[Len(lines)] = "" THEN TrimLines(SubSeq(lines, 1, Len(lines) - 1))
    ELSE lines

\* JSON.parse of the joined lines succeeds: they are one document.
JsonParses(lines) == TrimLines(lines) = formatJson

\* C24: with --format json the standard output of check, taken from its
\* second line on, is one parseable JSON document (caching enabled or not,
\* whatever the --parallel value).
C24_JsonFromSecondLine ==
    (cmd = "check" /\ pc = "exit" /\ \E i \in 1..Len(stdout) : stdout[i] = "{") =>
        JsonParses(Tail(stdout))


\* C25: getVulnerabilities returns the empty sequence for every package
\* and version, on a cache miss and on a cache hit alike, so every dependency
\* of a check report has no vulnerabilities and summary.vulnerabilities is 0.
C25_NoVulnerabilitiesInCheck ==
    cmd = "check" =>
        /\ \A i \in 1..Len(results) : results[i].vulnerabilities = <<>>
        /\ report.built => report.summary.vulnerabilities = 0
        /\ \A d \in 1..Len(dependencies) : \A n \in NameSet :
               LET version == dependencies[d].range.clean
               IN  /\ getVulnerabilities(vulnCache \ {<<n, version>>}, n, version) = <<>>
                   /\ getVulnerabilities(vulnCache \cup {<<n, version>>}, n, version) = <<>>

\* A check report over two dependencies whose vulnerabilities were looked up.
C25_Witness ==
    /\ cmd = "check"
    /\ report.built
    /\ Cardinality(vulnCache) = 2
    /\ Len(results) = 2


\* The dependencies of a check whose declared version is not exact and whose
\* lookup gave a latest version above 0.0.0.
RangeWithLatest ==
    {i \in 1..Len(packageNames) :
        /\ ~MapGet(dependencies, packageNames[i]).range.isExact
        /\ latestVersions[i].status = "fulfilled"
        /\ Truthy(latestVersions[i].value)
        /\ semverGt(latestVersions[i].value, Ver(0, 0, 0))}

\* C26: in a check report a dependency declared by a non-exact version
\* whose latest version is above 0.0.0 has updateAvailable true and updateType
\* 'unknown'; it counts as outdated and not as a major, minor or patch update,
\* so majorUpdates + minorUpdates + patchUpdates <= outdated, strictly when
\* there is such a dependency.
C26_UnknownCountedOutdatedOnly ==
    (cmd = "check" /\ report.built) =>
        LET s == report.summary
            typed == s.majorUpdates + s.minorUpdates + s.patchUpdates
        IN  /\ \A i \in RangeWithLatest :
                   /\ ResultOf(packageNames[i]).updateAvailable
                   /\ ResultOf(packageNames[i]).updateType = "unknown"
            /\ typed <= s.outdated
            /\ typed + Cardinality(RangeWithLatest) <= s.outdated

\* A check report with a range dependency of unknown update type beside a
\* dependency with a minor update.
C26_Witness ==
    /\ cmd = "check"
    /\ report.built
    /\ RangeWithLatest # {}
    /\ report.summary.minorUpdates = 1
    /\ report.summary.outdated = 2


\* Both lookups of dependency i of an update came back: the latest version
\* fulfilled with a non-empty value, the version list fulfilled.
BothLookupsFulfilled(i) ==
    /\ latestVersions[i].status = "fulfilled"
    /\ Truthy(latestVersions[i].value)
    /\ allVersions[i].status = "fulfilled"

\* The dependencies of an update with a rejected lookup.
RejectedLookups ==
    {i \in 1..Len(packageNames) :
        latestVersions[i].status = "rejected" \/ allVersions[i].status = "rejected"}

\* The version list of dependency i came back with a version newer than
\* the declared one.
NewerVersionListed(i) ==
    /\ allVersions[i].status = "fulfilled"
    /\ Truthy(MapGet(dependencies, packageNames[i]).range.clean)
    /\ \E k \in 1..Len(allVersions[i].value) :
           /\ semverValid(allVersions[i].value[k]) # Null
           /\ semverGt(allVersions[i].value[k], MapGet(dependencies, packageNames[i]).range.clean)

\* C27: in update a dependency has recommendations only when its latest
\* lookup fulfilled with a non-empty value and its version-list lookup
\* fulfilled; with either lookup rejected it has none and counts as up to
\* date, even when the other lookup returned newer versions.
C27_RecommendationsNeedBothLookups ==
    (cmd = "update" /\ pc \in {"process", "exit"} /\ Len(results) = Len(packageNames)) =>
        /\ \A i \in 1..Len(results) :
               /\ results[i].name = packageNames[i]
               /\ results[i].recommendations # <<>> => BothLookupsFulfilled(i)
               /\ i \in RejectedLookups => results[i].recommendations = <<>>
        /\ report.built => report.summary.upToDate >= Cardinality(RejectedLookups)

\* An update report for a dependency whose latest lookup rejected while its
\* version list came back with a newer version.
C27_Witness ==
    /\ cmd = "update"
    /\ report.built
    /\ \E i \in 1..Len(packageNames) :
           /\ latestVersions[i].status = "rejected"
           /\ NewerVersionListed(i)
           /\ results[i].recommendations = <<>>


\* The dependencies with every declared version replaced by v.
Redeclared(deps, v) ==
    [i \in 1..Len(deps) |-> [deps[i] EXCEPT !.version = v, !.range = parseVersionRange(v)]]

\* The packages an audit reports, each with its findings.
FindingsOf(auditResults) ==
    [k \in 1..Len(auditResults) |->
        <<auditResults[k].package, auditResults[k].vulnerabilities>>]

\* C28: the audit decides by package name and severity only: whatever
\* version a dependency declares (one a finding calls fixed, a range, a tag),
\* a dependency named in the table is reported with the same findings, and
\* the audit issues no registry request.
C28_AuditByNameAndSeverity ==
    (cmd = "audit" /\ (pc \in {"process", "output"} \/ (pc = "exit" /\ report.built))) =>
        /\ requests = <<>>
        /\ issued = 0
        /\ \A v \in AuditSpecifiers \cup {Ver(1, 0, 0)} :
               FindingsOf(results) =
                   FindingsOf(performSecurityAudit(Redeclared(dependencies, v), fnIn,
                                                   options.severity))
        /\ \A k \in 1..Len(results) :
               results[k].currentVersion = MapGet(dependencies, results[k].package).version

\* An audit has reported lodash, declared by a dist-tag, with its finding.
C28_Witness ==
    /\ cmd = "audit"
    /\ pc = "exit"
    /\ report.built
    /\ \E k \in 1..Len(results) :
           /\ results[k].package = "lodash"
           /\ results[k].currentVersion = Text("latest")
           /\ results[k].vulnerabilities = mockVulnerabilities.lodash


\* The thresholds the audit knows.
SeverityLevelSet == {severityLevels[k] : k \in 1..Len(severityLevels)}

\* The findings of an audit result, each with its package.
KeptSet(auditResults) ==
    UNION {{<<auditResults[k].package, auditResults[k].vulnerabilities[j]>> :
               j \in 1..Len(auditResults[k].vulnerabilities)} :
           k \in 1..Len(auditResults)}

\* C29: a threshold that is none of low, moderate, high, critical (in any
\* case) filters nothing out: the audit result is the result for low; and for
\* valid thresholds t1 <= t2 the findings kept at t2 are among those kept at t1.
C29_ThresholdMonotone ==
    (cmd = "audit" /\ pc \in {"process", "output"}) =>
        LET t == ToLowerCase(options.severity)
        IN  IF t \notin SeverityLevelSet
            THEN results = performSecurityAudit(dependencies, fnIn, "low")
            ELSE \A t1 \in SeverityLevelSet :
                    SeverityRank(t1) <= SeverityRank(t) =>
                        KeptSet(results) \subseteq
                            KeptSet(performSecurityAudit(dependencies, fnIn, t1))

\* An audit under an unknown threshold has kept a low finding.
C29_Witness ==
    /\ cmd = "audit"
    /\ pc = "process"
    /\ options.severity = "none"
    /\ \E k \in 1..Len(results) :
           \E j \in 1..Len(results[k].vulnerabilities) :
               results[k].vulnerabilities[j].severity = "low"


\* C30: every invocation of check, audit or update eventually terminates,
\* with its report emitted or the process exited, provided every registry
\* request eventually fulfils or rejects; a rejected lookup never leaves the
\* invocation waiting.
C30_EventuallyTerminates == <>(pc = "exit")

\* An update has ended with its report although a lookup was rejected.
C30_Witness ==
    /\ cmd = "update"
    /\ pc = "exit"
    /\ report.built
    /\ \E r \in 1..Len(requests) : requests[r].state = "rejected"

=============================================================================
